---------------------------- MODULE Spec2Model ----------------------------
(***************************************************************************)
(* Time-discrete race simulator (racesim): the race coordinator            *)
(* (core/race.rs), the per-car state handler (core/state_handler.rs), the  *)
(* car (core/car.rs) and the driver loop with its snapshot channel         *)
(* (core/handle_race.rs).                                                  *)
(*                                                                         *)
(* Units.  The source computes in f64 seconds and metres.  The model       *)
(* computes in integers: times in milliseconds, arc lengths in metres.     *)
(* A lap fraction s/L is carried as its numerator s (metres); a quotient   *)
(* is rounded down to the grid.  f64::INFINITY is the value Inf, on which  *)
(* no arithmetic is done (INF + x = INF, dt / INF = 0, as in IEEE 754).    *)
(***************************************************************************)
EXTENDS Integers, Sequences, FiniteSets, TLC

VARIABLES
    race,            \* the Race struct (race.rs:98-136)
    pc,              \* handle_race: "loop", "ok" (returned Ok), "err" (returned Err),
                     \* "panic" (a panic! of the state handler ended the run)
    sim_realtime,    \* handle_race: tx.is_some()
    rx_alive,        \* the consumer still holds the Receiver of the channel
    sent,            \* the messages delivered to the channel, in order
    sent_at,         \* the race time at which each message of sent was sent
    lineups,         \* the race times of the steps that found the queue lined up
    failed_sends,    \* number of send calls that returned an error
    t_race_update_gui \* handle_race: race time of the last mid-race snapshot

vars == <<race, pc, sim_realtime, rx_alive, sent, sent_at, lineups,
          failed_sends, t_race_update_gui>>

----------------------------------------------------------------------------
(* Bounds of the model *)

\* the driver loop is explored up to this race time (ms)
MaxRaceTime == 14000
\* the long-run specification is explored up to this race time (ms)
MaxRaceTimeLong == 303000
\* tot_no_laps of the scenario
TotNoLaps == 2
\* tot_no_laps of the long-run scenario
TotNoLapsLong == 5

----------------------------------------------------------------------------
(* Program constants (seconds of the source are milliseconds here) *)

Inf == 100000000
SC_TIMER_MAX == 300000
SC_RELEASE_AFTER_LINEUP == 10000
SC_SPEED == 50
SC_START_OFFSET == 500
SC_TARGET_GAP == 15
SC_LINEUP_TOLERANCE == 5
SC_MIN_SPEED == 10
DIRTY_AIR_THRESHOLD == 2000
BLOCKING_THRESHOLD == 500
OVERTAKE_SPEED_DELTA == 150
AERO_PENALTY_MAX == 300
PRESSURE_THRESHOLD == 1000
PROXIMITY_THRESHOLD == 300
LOCKUP_LOSS == 1200
WIDE_LOSS == 800
WIDE_GAIN == 300
CORNER_PENALTY == 500
OVERTAKE_WINNER_LOSS == 100
OVERTAKE_THRESHOLD == 200
OVERTAKE_THRESHOLD_MIN == 50
BLOCKING_WEAR == 500
LOCKUP_WEAR == 2000

\* time gaps beyond this range (ms) are carried as -Inf in the gap closing
GAP_ADD_RANGE == 100000

\* the snapshot period of handle_race in ms (gui_interface.rs:4,
\* handle_race.rs:68)
MAX_GUI_UPDATE_FREQUENCY == 20
GUI_PERIOD == 1000 \div MAX_GUI_UPDATE_FREQUENCY
GUI_SLACK == 1

----------------------------------------------------------------------------
(* Scenario: the parameters handle_race is called with *)

\* timestep_size (handle_race.rs:18), ms
Timestep == 1000
TimestepLong == 700

\* TrackPars (track.rs:29-50)
TrackLength == 600
PitZone == <<540, 60>>
RealLengthPitZone == 120
PitSpeedlimit == 20
PitsAftFinishline == TRUE
OvertakingZones == << <<500, 100>> >>
Corners == << <<300, 350>> >>
DFirstGridpos == -5
DPerGridpos == -10

\* TrackPars.t_q, t_gap_racepace (track.rs:29-50)
TQ == 5000
TGapRacepace == 500

\* SimConstants (race.rs:48-61)
MinTDist == 500
TDuel == 200
TOvertakeLoser == 400

\* SimConstants.collision_factor and failure_rate_per_hour (race.rs:48-61)
CollisionFactor == 1
FailureRatePerHour == 2

\* SimConstants.min_weather_duration_s (race.rs:55-56), in ms
MinWeatherDuration == 3000

\* TrackPars.t_drseffect (track.rs:29-50)
TDrsEffect == -300

\* CarPars.m_fuel and b_fuel_per_lap (car.rs:57-58), kg, the same for every car
MFuel == 3
BFuelPerLap == 2

\* CarPars.pit_location (car.rs:45), the same box for every car
PitLocation == 20

\* a pit box before the line, for a track with pits_aft_finishline = false
PitLocationBefore == 580
\* the pit box of a pit lane whose box lies 20 m behind the pit entry
PitLocationEntry == 560

\* The lap times calc_th_laptime can return for a running car: with a driver
\* consistency < 1 the normal noise makes every value a possible outcome.
ThLaptimes == {6000, 12000}


\* The standstill times t_add_pit_standstill can sample (Normal(2.4, 0.4), >= 0)
StandstillTimes == {1500, 2400}

Max(a, b) == IF a > b THEN a ELSE b
Abs(a) == IF a < 0 THEN -a ELSE a

\* Track::new (track.rs:187-191)
TrackLengthPitZone ==
    IF PitZone[1] < PitZone[2] THEN PitZone[2] - PitZone[1]
    ELSE TrackLength - PitZone[1] + PitZone[2]

RECURSIVE ZonesLength(_)
ZonesLength(zs) ==
    IF zs = <<>> THEN 0
    ELSE (IF Head(zs)[1] < Head(zs)[2] THEN Head(zs)[2] - Head(zs)[1]
          ELSE TrackLength - Head(zs)[1] + Head(zs)[2]) + ZonesLength(Tail(zs))

\* Track::is_in_overtaking_zone (track.rs:244-259)
IsInOvertakingZone(overtaking_zones, s_track) ==
    \E k \in 1..Len(overtaking_zones) :
        LET zone == overtaking_zones[k] IN
        IF zone[1] < zone[2] THEN s_track >= zone[1] /\ s_track <= zone[2]
        ELSE s_track >= zone[1] \/ s_track <= zone[2]

\* lap time of a car driving through the pit lane (race.rs:568)
PitLaptime ==
    (((TrackLength * 1000) \div PitSpeedlimit) * RealLengthPitZone) \div TrackLengthPitZone

----------------------------------------------------------------------------
(* f64 with INFINITY *)

AddT(x, d) == IF x >= Inf THEN Inf ELSE x + d

\* a * b / c rounded down, for b >= 0 and c > 0, without the intermediate
\* product a * b
MulDiv(a, b, c) == a * (b \div c) + (a * (b % c)) \div c

\* timestep / laptime * track_length, the distance driven in a time span
Dist(span, laptime) == IF laptime >= Inf THEN 0 ELSE (span * TrackLength) \div laptime

----------------------------------------------------------------------------
(* StateHandler (state_handler.rs) *)

\* StateHandler::default + initialize_state_handler (state_handler.rs:45-72, 261-286)
NewStateHandler(s_track_start) ==
    [ s_track_prev |-> s_track_start,
      s_track_cur |-> s_track_start,
      state |-> "OnTrack",
      t_standstill |-> 0,
      t_standstill_target |-> 0,
      pit_act |-> FALSE,
      pit_standstill_act |-> FALSE,
      drs_act |-> FALSE,
      duel_act |-> FALSE,
      corner_act |-> FALSE,
      compl_lap_prev |-> 0,
      compl_lap_cur |-> 0,
      \* one of the panic! checks of the state handler has been hit
      panicked |-> FALSE,
      \* calls of act_pit_standstill and of Car::perform_pitstop since the
      \* car last entered the pit lane
      visit_standstills |-> 0,
      visit_pitstops |-> 0 ]

\* StateHandler::get_new_lap (state_handler.rs:229-231)
GetNewLap(sh) == sh.compl_lap_cur > sh.compl_lap_prev

\* StateHandler::get_s_track_passed_this_step (state_handler.rs:74-85)
GetSTrackPassedThisStep(sh, s_track) ==
    \/ (sh.s_track_prev < s_track \/ GetNewLap(sh)) /\ s_track <= sh.s_track_cur
    \/ sh.s_track_prev < s_track /\ (s_track <= sh.s_track_cur \/ GetNewLap(sh))

\* StateHandler::get_s_tracks (state_handler.rs:202-216): the current
\* coordinate of a car behind the line is s + s, not s + track_length.
GetSTracksPrev(sh) ==
    IF sh.s_track_prev < 0 THEN sh.s_track_prev + TrackLength ELSE sh.s_track_prev

GetSTracksCur(sh) ==
    IF sh.s_track_cur < 0 THEN sh.s_track_cur + sh.s_track_cur ELSE sh.s_track_cur

\* the lap fraction at the end of the step in place of the one at its start
GetLapFracOfCur(sh) == sh.s_track_cur

\* StateHandler::get_lap_fracs (state_handler.rs:185-199), times track_length
GetLapFracPrev(sh) ==
    IF sh.s_track_prev < 0 THEN sh.s_track_prev + TrackLength ELSE sh.s_track_prev

GetLapFracCur(sh) ==
    IF sh.s_track_cur < 0 THEN sh.s_track_cur + sh.s_track_cur ELSE sh.s_track_cur

\* StateHandler::get_race_prog (state_handler.rs:224-226), times track_length
GetRaceProg(sh) == sh.compl_lap_cur * TrackLength + sh.s_track_cur

\* StateHandler::check_leaves_standstill (state_handler.rs:170-180):
\* -1 for None, else the time left for driving; the callers record the
\* panic of a call outside PitStandstill
CheckLeavesStandstill(sh, timestep_size) ==
    IF sh.t_standstill + timestep_size <= sh.t_standstill_target THEN -1
    ELSE sh.t_standstill + timestep_size - sh.t_standstill_target

\* a state machine that enters the pit lane on every lap
CheckStateTransitionEveryLap(sh, delta_t_front, delta_t_rear, pit_this_lap) ==
    IF sh.state = "OnTrack" /\ GetSTrackPassedThisStep(sh, PitZone[1])
    THEN [sh EXCEPT !.state = "Pitlane", !.pit_act = TRUE]
    ELSE IF sh.state = "Pitlane" /\ GetSTrackPassedThisStep(sh, PitZone[2])
    THEN [sh EXCEPT !.state = "OnTrack", !.pit_act = FALSE]
    ELSE sh

\* StateHandler::check_state_transition (state_handler.rs:90-134); a
\* delta_t is Inf for an infinite or NaN gap (no comparison with it is true)
CheckStateTransition(sh, delta_t_front, delta_t_rear, pit_this_lap) ==
    LET duel == delta_t_front < 1000 \/ delta_t_rear < 1000
        corner == \E k \in 1..Len(Corners) :
                      \/ GetSTrackPassedThisStep(sh, Corners[k][1])
                      \/ sh.s_track_cur >= Corners[k][1] /\ sh.s_track_cur <= Corners[k][2]
        sh1 == [sh EXCEPT !.duel_act = duel, !.corner_act = corner]
    IN  CASE sh.state = "OnTrack" ->
               IF pit_this_lap /\ GetSTrackPassedThisStep(sh, PitZone[1])
               THEN [sh1 EXCEPT !.state = "Pitlane", !.pit_act = TRUE,
                                !.visit_standstills = 0, !.visit_pitstops = 0]
               ELSE sh1
          [] sh.state = "Pitlane" ->
               IF GetSTrackPassedThisStep(sh, PitZone[2])
               THEN [sh1 EXCEPT !.state = "OnTrack", !.pit_act = FALSE]
               ELSE sh1
          [] OTHER -> sh1

\* act_pit_standstill that arms the standstill but leaves the state alone
ActPitStandstillStateKept(sh, t_standstill, t_standstill_target) ==
    [sh EXCEPT !.pit_standstill_act = TRUE,
               !.t_standstill = t_standstill,
               !.t_standstill_target = t_standstill_target]

\* StateHandler::act_pit_standstill (state_handler.rs:137-146)
ActPitStandstill(sh, t_standstill, t_standstill_target) ==
    IF sh.state # "Pitlane" THEN [sh EXCEPT !.panicked = TRUE]
    ELSE [sh EXCEPT !.state = "PitStandstill", !.pit_standstill_act = TRUE,
                    !.t_standstill = t_standstill,
                    !.t_standstill_target = t_standstill_target,
                    !.visit_standstills = @ + 1]

\* deact_pit_standstill that resets the state but forgets the boolean
DeactPitStandstillFlagKept(sh) ==
    [sh EXCEPT !.state = "Pitlane", !.t_standstill = 0,
               !.t_standstill_target = 0]

\* StateHandler::deact_pit_standstill (state_handler.rs:149-158)
DeactPitStandstill(sh) ==
    IF sh.state # "PitStandstill" THEN [sh EXCEPT !.panicked = TRUE]
    ELSE [sh EXCEPT !.state = "Pitlane", !.pit_standstill_act = FALSE,
                    !.t_standstill = 0, !.t_standstill_target = 0]

\* StateHandler::increment_t_standstill (state_handler.rs:161-167)
IncrementTStandstill(sh, timestep_size) ==
    IF sh.state # "PitStandstill" THEN [sh EXCEPT !.panicked = TRUE]
    ELSE [sh EXCEPT !.t_standstill = @ + timestep_size]

\* StateHandler::set_s_track (state_handler.rs:234-242)
SetSTrack(sh, s_track_cur) ==
    IF ~(0 <= s_track_cur /\ s_track_cur < TrackLength)
    THEN [sh EXCEPT !.panicked = TRUE]
    ELSE [sh EXCEPT !.s_track_cur = s_track_cur]

\* StateHandler::update_race_prog (state_handler.rs:245-258)
UpdateRaceProg(sh, cur_laptime, timestep_size) ==
    LET s_new == sh.s_track_cur + Dist(timestep_size, cur_laptime) IN
    [sh EXCEPT !.compl_lap_prev = sh.compl_lap_cur,
               !.s_track_prev = sh.s_track_cur,
               !.s_track_cur = IF s_new >= TrackLength THEN s_new - TrackLength ELSE s_new,
               !.compl_lap_cur = IF s_new >= TrackLength THEN @ + 1 ELSE @]

----------------------------------------------------------------------------
(* Car (car.rs) *)

\* Car::pit_this_lap (car.rs:175-179)
PitThisLap(car, cur_lap) ==
    \E k \in 1..Len(car.strategy) : car.strategy[k].inlap = cur_lap

\* Car::t_add_pit_standstill (car.rs:221-243): does the stop of this inlap
\* change tires (a sampled standstill time) or not (0.0)
HasTireChange(car, inlap) ==
    /\ \E k \in 1..Len(car.strategy) : car.strategy[k].inlap = inlap
    /\ LET k == CHOOSE k \in 1..Len(car.strategy) : 
                    /\ car.strategy[k].inlap = inlap
                    /\ \A m \in 1..(k - 1) : car.strategy[m].inlap # inlap
       IN  car.strategy[k].compound # ""

\* the slick compounds (car.rs:93-96, 202-207; race.rs:300)
Slicks == {"SOFT", "MEDIUM", "HARD"}

\* Tireset::new (tireset.rs:76-82); ages are carried in 1/1000 lap
NewTireset(compound, age_tot) ==
    [ compound |-> compound, age_tot |-> age_tot * 1000, age_cur_stint |-> 0 ]

\* a lap that ages the stint only
TiresetDriveLapStintOnly(tireset, wear_factor) ==
    [ tireset EXCEPT !.age_cur_stint = @ + wear_factor ]

\* Tireset::drive_lap (tireset.rs:85-88); wear_factor in 1/1000
TiresetDriveLap(tireset, wear_factor) ==
    [ tireset EXCEPT !.age_cur_stint = @ + wear_factor,
                     !.age_tot = @ + wear_factor ]

\* Car::get_current_compound (car.rs:245-247)
GetCurrentCompound(car) == car.tireset.compound

\* Car::get_strategy_entry (car.rs:183-188): the index of the first entry
\* of this inlap, 0 for None
GetStrategyEntry(strategy, inlap) ==
    IF \E k \in 1..Len(strategy) : strategy[k].inlap = inlap
    THEN CHOOSE k \in 1..Len(strategy) :
             /\ strategy[k].inlap = inlap
             /\ \A m \in 1..(k - 1) : strategy[m].inlap # inlap
    ELSE 0

\* scheduling that always adds an entry
ScheduleAlwaysPush(strategy, inlap, compound) ==
    Append(strategy, [inlap |-> inlap, tire_start_age |-> 0, compound |-> compound])

\* Car::schedule_weather_strategy (car.rs:249-260) on the strategy of a car
ScheduleWeatherStrategy(strategy, inlap, compound) ==
    LET k == GetStrategyEntry(strategy, inlap) IN
    IF k > 0
    THEN [strategy EXCEPT ![k].compound = compound]
    ELSE Append(strategy, [inlap |-> inlap, tire_start_age |-> 0,
                           compound |-> compound])

----------------------------------------------------------------------------
(* Race helpers (race.rs:1070-1174) *)

CarIdxs(r) == 1..Len(r.cars_list)

IsDNF(r, i) == r.cars_list[i].status = "DNF"

\* helpers::general::argsort, SortOrder::Descending (general.rs:54-61):
\* a stable sort, equal values keep their index order
ArgsortDesc(vals) ==
    LET n == Len(vals)
        Rank(c) == 1 + Cardinality({d \in 1..n :
                        vals[d] > vals[c] \/ (vals[d] = vals[c] /\ d < c)})
    IN  [k \in 1..n |-> CHOOSE c \in 1..n : Rank(c) = k]

\* helpers::general::argmax (general.rs:18-30): the first maximum
Argmax(vals) ==
    CHOOSE k \in 1..Len(vals) :
        /\ \A m \in 1..Len(vals) : vals[m] <= vals[k]
        /\ \A m \in 1..(k - 1) : vals[m] < vals[k]

\* Race::get_car_order_on_track (race.rs:1114-1122)
GetCarOrderOnTrack(r) ==
    ArgsortDesc([i \in CarIdxs(r) |-> GetSTracksCur(r.cars_list[i].sh)])

\* Race::get_car_pair_idxs_list (race.rs:1161-1174): <<front, rear>> pairs
GetCarPairIdxsList(idxs, del_last_pair) ==
    LET n == Len(idxs)
        all == [k \in 1..n |-> <<idxs[k], idxs[(k % n) + 1]>>]
    IN  IF del_last_pair THEN SubSeq(all, 1, n - 1) ELSE all

\* Race::calc_projected_delta_lap_frac (race.rs:1134-1159), times track_length
CalcProjectedDeltaLapFrac(r, idx_front, idx_rear, timestep_size) ==
    LET f0 == GetLapFracCur(r.cars_list[idx_front].sh)
                  + Dist(timestep_size, r.cur_laptimes[idx_front])
        r0 == GetLapFracCur(r.cars_list[idx_rear].sh)
                  + Dist(timestep_size, r.cur_laptimes[idx_rear])
        f1 == IF f0 >= TrackLength THEN f0 - TrackLength ELSE f0
        r1 == IF r0 >= TrackLength THEN r0 - TrackLength ELSE r0
    IN  IF f1 >= r1 THEN f1 - r1 ELSE f1 + TrackLength - r1

\* Race::calc_projected_delta_t (race.rs:1124-1132); an infinite lap time of
\* the rear car gives INF or NaN, for which no "<" holds: both are Inf here
CalcProjectedDeltaT(r, idx_front, idx_rear, timestep_size) ==
    IF r.cur_laptimes[idx_rear] >= Inf THEN Inf
    ELSE MulDiv(CalcProjectedDeltaLapFrac(r, idx_front, idx_rear, timestep_size),
                r.cur_laptimes[idx_rear], TrackLength)

\* Race::get_idx_list_sorted_by_biggest_gap (race.rs:1098-1112)
GetIdxListSortedByBiggestGap(r) ==
    LET idxs == GetCarOrderOnTrack(r)
        n == Len(idxs)
        pairs == GetCarPairIdxsList(idxs, FALSE)
        fracs == [k \in 1..n |->
                     CalcProjectedDeltaLapFrac(r, pairs[k][1], pairs[k][2], 0)]
        start_idx == Argmax(fracs) % n
    IN  [k \in 1..n |-> idxs[((k - 1 + start_idx) % n) + 1]]

\* Race::get_all_finished (race.rs:1070-1076)
GetAllFinished(r) ==
    \/ r.flag_state = "C"
    \/ \A i \in CarIdxs(r) : r.race_finished[i]

\* Race::get_min_laptime_flag_state (race.rs:895-902)
GetMinLaptimeFlagState(r) ==
    CASE r.flag_state = "Y" -> ((TQ + TGapRacepace) * 11) \div 10
      [] r.flag_state \in {"Vsc", "Sc"} -> ((TQ + TGapRacepace) * 14) \div 10
      [] OTHER -> 0

\* RaceEvent (race.rs:74-80)
Event(kind, r, cars) ==
    [kind |-> kind, lap |-> r.cur_lap_leader, time_s |-> r.cur_racetime, cars |-> cars]

----------------------------------------------------------------------------
(* Race::calc_cur_laptimes (race.rs:488-892) *)

\* the safety car is never taken to be on track
ScActiveNever(r) == FALSE

\* sc_active (race.rs:490)
ScActive(r) == r.flag_state = "Sc" /\ r.safety_car.active

\* part 1 without the branch for retired cars
BaseLaptimeDnfDrives(r, i) ==
    LET car == r.cars_list[i] IN
    IF car.sh.pit_act THEN PitLaptime
    ELSE IF r.cur_th_laptimes[i] >= Inf THEN Inf
    ELSE Max(r.cur_th_laptimes[i], GetMinLaptimeFlagState(r))

\* a lap time that lets a standing car drive at pit-lane pace
BaseLaptimeStandstillDrives(r, i) ==
    LET car == r.cars_list[i] IN
    IF car.status = "DNF" THEN Inf
    ELSE IF car.sh.pit_act THEN PitLaptime
    ELSE Max(r.cur_th_laptimes[i], GetMinLaptimeFlagState(r))

\* part 1, one car (race.rs:506-577): physics, flag floor, duel, corner, pit
BaseLaptime(r, i) ==
    LET car == r.cars_list[i]
        t0 == r.cur_th_laptimes[i]
        t1 == IF ~ScActive(r) /\ ~car.sh.pit_act
              THEN Max(t0, GetMinLaptimeFlagState(r))
                   + (IF car.sh.drs_act /\ r.weather_state = "Dry"
                      THEN (TDrsEffect * TrackLength) \div ZonesLength(r.overtaking_zones)
                      ELSE 0)
                   + (IF car.sh.duel_act
                      THEN (TDuel * TrackLength) \div ZonesLength(r.overtaking_zones)
                      ELSE 0)
              ELSE t0
        t2 == IF car.sh.corner_act THEN t1 + CORNER_PENALTY ELSE t1
        t_driving == CheckLeavesStandstill(car.sh, r.timestep_size)
    IN  IF car.status = "DNF" THEN Inf
        ELSE IF ~car.sh.pit_act THEN t2
        ELSE IF ~car.sh.pit_standstill_act THEN PitLaptime
        ELSE IF t_driving >= 0 THEN (PitLaptime * r.timestep_size) \div t_driving
        ELSE Inf

\* part 1 (race.rs:506-577); check_leaves_standstill (race.rs:570) panics
\* for a car whose flags say standstill while its state does not
CalcBaseLaptimes(r) ==
    [r EXCEPT !.cur_laptimes = [i \in CarIdxs(r) |-> BaseLaptime(r, i)],
              !.cars_list =
                  [i \in CarIdxs(r) |->
                      IF /\ ~IsDNF(r, i)
                         /\ r.cars_list[i].sh.pit_act
                         /\ r.cars_list[i].sh.pit_standstill_act
                         /\ r.cars_list[i].sh.state # "PitStandstill"
                      THEN [r.cars_list[i] EXCEPT !.sh.panicked = TRUE]
                      ELSE r.cars_list[i]]]

\* dirty air and blocking of one pair on track (race.rs:585-656)
DirtyAirPair(r, idx_front, idx_rear) ==
    LET gap_time == CalcProjectedDeltaT(r, idx_front, idx_rear, 0)
        aero_penalty == (AERO_PENALTY_MAX * (DIRTY_AIR_THRESHOLD - gap_time))
                            \div DIRTY_AIR_THRESHOLD
        time_rear == IF gap_time < DIRTY_AIR_THRESHOLD
                     THEN AddT(r.cur_laptimes[idx_rear], aero_penalty)
                     ELSE r.cur_laptimes[idx_rear]
        time_front == r.cur_laptimes[idx_front]
        s_track_rear == GetSTracksCur(r.cars_list[idx_rear].sh)
        can_overtake == /\ IsInOvertakingZone(r.overtaking_zones, s_track_rear)
                        /\ (time_front >= Inf
                            \/ time_front - time_rear > OVERTAKE_SPEED_DELTA)
        blocked == gap_time < BLOCKING_THRESHOLD /\ time_rear < time_front
                       /\ ~can_overtake
        \* dirty_air_wear_factor in 1/1000 (race.rs:616, 646)
        wear1 == IF gap_time < DIRTY_AIR_THRESHOLD
                 THEN 1000 + (1000 * (DIRTY_AIR_THRESHOLD - gap_time))
                                 \div DIRTY_AIR_THRESHOLD
                 ELSE r.cars_list[idx_rear].dirty_air_wear_factor
        wear2 == IF blocked THEN wear1 + BLOCKING_WEAR ELSE wear1
    IN  IF r.cars_list[idx_front].sh.pit_act \/ r.cars_list[idx_rear].sh.pit_act
        THEN r
        ELSE [r EXCEPT !.cur_laptimes[idx_rear] =
                           IF blocked THEN time_front ELSE time_rear,
                       !.cars_list[idx_rear].dirty_air_wear_factor = wear2]

RECURSIVE DirtyAirFrom(_, _, _)
DirtyAirFrom(r, idxs_sorted, k) ==
    IF k >= Len(idxs_sorted) THEN r
    ELSE DirtyAirFrom(DirtyAirPair(r, idxs_sorted[k], idxs_sorted[k + 1]),
                      idxs_sorted, k + 1)

\* green-flag part (race.rs:579-657)
CalcDirtyAir(r) ==
    IF ScActive(r) THEN r ELSE DirtyAirFrom(r, GetCarOrderOnTrack(r), 1)

\* sc_total_dist (race.rs:497-502)
ScTotalDist(r) ==
    (IF r.safety_car.lap > 0 THEN r.safety_car.lap - 1 ELSE 0) * TrackLength
        + r.safety_car.s_track

\* cars sorted by race progress, descending (race.rs:662-666)
ScCarIndices(r) ==
    ArgsortDesc([i \in CarIdxs(r) |-> GetRaceProg(r.cars_list[i].sh)])

\* a car takes part in the queue behind the safety car (race.rs:679)
InScQueue(r, i) == ~IsDNF(r, i) /\ ~r.cars_list[i].sh.pit_act

\* lap time of a queued car with the object in front at front_obj_pos
\* (race.rs:684-709); speeds are compared in units of 0.5 m/s
ScLaptime(r, i, front_obj_pos) ==
    LET gap == front_obj_pos - GetRaceProg(r.cars_list[i].sh)
        speed2 == 2 * SC_SPEED + (gap - SC_TARGET_GAP)
        capped == speed2 * r.cur_th_laptimes[i] > 2000 * TrackLength
    IN  IF capped
        THEN IF TrackLength * 1000 < SC_MIN_SPEED * r.cur_th_laptimes[i]
             THEN (TrackLength * 1000) \div SC_MIN_SPEED
             ELSE r.cur_th_laptimes[i]
        ELSE IF speed2 < 2 * SC_MIN_SPEED
             THEN (TrackLength * 1000) \div SC_MIN_SPEED
             ELSE (2000 * TrackLength) \div speed2

RECURSIVE ScQueueFrom(_, _, _, _)
ScQueueFrom(r, car_indices, k, front_obj_pos) ==
    IF k > Len(car_indices) THEN r
    ELSE LET i == car_indices[k] IN
         IF ~InScQueue(r, i)
         THEN ScQueueFrom(r, car_indices, k + 1, front_obj_pos)
         ELSE ScQueueFrom(
                  [r EXCEPT !.cur_laptimes[i] = ScLaptime(r, i, front_obj_pos)],
                  car_indices, k + 1, GetRaceProg(r.cars_list[i].sh))

\* the queue is lined up behind the safety car (race.rs:716-742)
LineupOk(r) ==
    LET positions == SelectSeq(ScCarIndices(r), LAMBDA i : InScQueue(r, i))
        Pos(k) == GetRaceProg(r.cars_list[positions[k]].sh)
        Wrap(gap) == IF gap < 0 THEN gap + TrackLength ELSE gap
    IN  /\ positions # <<>>
        /\ Abs(Wrap(ScTotalDist(r) - Pos(1)) - SC_TARGET_GAP) <= SC_LINEUP_TOLERANCE
        /\ \A w \in 1..(Len(positions) - 1) :
               Abs(Wrap(Pos(w) - Pos(w + 1)) - SC_TARGET_GAP) <= SC_LINEUP_TOLERANCE

\* the queue behind the safety car without the check of the lineup
CalcScQueueTimerKept(r) == ScQueueFrom(r, ScCarIndices(r), 1, ScTotalDist(r))

\* safety-car part (race.rs:660-751)
CalcScQueue(r) ==
    LET r1 == ScQueueFrom(r, ScCarIndices(r), 1, ScTotalDist(r)) IN
    IF LineupOk(r) /\ r.sc_timer > SC_RELEASE_AFTER_LINEUP
    THEN [r1 EXCEPT !.sc_timer = SC_RELEASE_AFTER_LINEUP]
    ELSE r1

\* eff_overtake_threshold (race.rs:864-871), aggression in percent
EffOvertakeThreshold(ag_front, ag_rear) ==
    Max(OVERTAKE_THRESHOLD_MIN,
        (OVERTAKE_THRESHOLD * (1000 - 7 * ag_rear + 3 * ag_front)) \div 1000)

\* The random draws of the interaction part for one pair: the mistake of
\* the defending driver (race.rs:776-794) and the collision (race.rs:841).
MistakeKinds == {"none", "lockup", "wide"}

\* a mistake can be drawn (race.rs:765-776): mistake_prob > 0
MistakePossible(r, idx_front, idx_rear) ==
    /\ CalcProjectedDeltaT(r, idx_front, idx_rear, 0) < PRESSURE_THRESHOLD
    /\ ~r.cars_list[idx_front].sh.pit_act
    /\ ~r.cars_list[idx_rear].sh.pit_act
    /\ r.cars_list[idx_front].driver.consistency < 100

\* pressure and mistakes of one pair (race.rs:763-794)
ApplyMistake(r, idx_front, idx_rear, mistake) ==
    IF ~MistakePossible(r, idx_front, idx_rear) THEN r
    ELSE CASE mistake = "lockup" ->
                [r EXCEPT !.cur_laptimes[idx_front] = AddT(@, LOCKUP_LOSS),
                          !.cars_list[idx_front].dirty_air_wear_factor =
                              @ + LOCKUP_WEAR]
           [] mistake = "wide" ->
                [r EXCEPT !.cur_laptimes[idx_front] = AddT(@, WIDE_LOSS),
                          !.cur_laptimes[idx_rear] = AddT(@, -WIDE_GAIN)]
           [] OTHER -> r

\* a collision can be drawn (race.rs:815-841): p_step > 0
CollisionPossible(r, idx_front, idx_rear, delta_t_proj) ==
    /\ ~r.cars_list[idx_front].sh.pit_act
    /\ delta_t_proj < MinTDist
    /\ delta_t_proj < PROXIMITY_THRESHOLD
    /\ ~r.cars_list[idx_rear].sh.pit_act
    /\ ~IsDNF(r, idx_front)
    /\ ~IsDNF(r, idx_rear)
    /\ CollisionFactor > 0

\* a collision logged with the front car only
CollideFrontNamed(r, idx_front, idx_rear) ==
    [r EXCEPT !.cars_list[idx_front].status = "DNF",
              !.cars_list[idx_rear].status = "DNF",
              !.cur_laptimes[idx_front] = Inf,
              !.cur_laptimes[idx_rear] = Inf,
              !.events = Append(@, Event("Crash", r,
                            <<r.cars_list[idx_front].car_no>>))]

\* both cars of a pair retire (race.rs:842-860)
Collide(r, idx_front, idx_rear) ==
    [r EXCEPT !.cars_list[idx_front].status = "DNF",
              !.cars_list[idx_rear].status = "DNF",
              !.cur_laptimes[idx_front] = Inf,
              !.cur_laptimes[idx_rear] = Inf,
              !.events = Append(@, Event("Crash", r,
                            <<r.cars_list[idx_front].car_no,
                              r.cars_list[idx_rear].car_no>>))]

\* overtaking or closing the gap (race.rs:864-885): the laptimes_updates
\* this pair pushes, a sequence of <<idx, time_add>>
PairUpdates(r, idx_front, idx_rear) ==
    LET th_front == r.cur_th_laptimes[idx_front]
        th_rear == r.cur_th_laptimes[idx_rear]
        in_corner == r.cars_list[idx_front].sh.corner_act
                        \/ r.cars_list[idx_rear].sh.corner_act
        thr == EffOvertakeThreshold(r.cars_list[idx_front].driver.aggression,
                                    r.cars_list[idx_rear].driver.aggression)
        faster == th_rear < Inf /\ (th_front >= Inf \/ th_front - th_rear > thr)
        delta_t_cur == CalcProjectedDeltaT(r, idx_front, idx_rear, 0)
        t_gap_add == IF MinTDist - delta_t_cur < -GAP_ADD_RANGE THEN -Inf
                     ELSE MulDiv(MinTDist - delta_t_cur, r.cur_laptimes[idx_rear], 5000)
        target_time == AddT(r.cur_laptimes[idx_front], t_gap_add)
    IN  IF faster /\ ~in_corner
        THEN << <<idx_rear, OVERTAKE_WINNER_LOSS>>, <<idx_front, TOvertakeLoser>> >>
        ELSE IF r.cur_laptimes[idx_rear] < target_time
        THEN << <<idx_rear, IF target_time >= Inf THEN Inf
                            ELSE target_time - r.cur_laptimes[idx_rear]>> >>
        ELSE <<>>

\* one pair of the interaction loop (race.rs:758-887), on the accumulator
\* [r: the race, updates: laptimes_updates]
InteractPair(acc, idx_front, idx_rear, mistake, crash) ==
    LET r0 == acc.r
        delta_t_proj == CalcProjectedDeltaT(r0, idx_front, idx_rear, r0.timestep_size)
        r1 == ApplyMistake(r0, idx_front, idx_rear, mistake)
    IN  IF ~(~r1.cars_list[idx_front].sh.pit_act /\ delta_t_proj < MinTDist)
        THEN [acc EXCEPT !.r = r1]
        ELSE IF CollisionPossible(r1, idx_front, idx_rear, delta_t_proj) /\ crash
        THEN [acc EXCEPT !.r = Collide(r1, idx_front, idx_rear)]
        ELSE [r |-> r1, updates |-> acc.updates \o PairUpdates(r1, idx_front, idx_rear)]

RECURSIVE InteractFrom(_, _, _, _, _)
InteractFrom(acc, pairs, k, mistakes, crashes) ==
    IF k > Len(pairs) THEN acc
    ELSE InteractFrom(
             InteractPair(acc, pairs[k][1], pairs[k][2], mistakes[k], crashes[k]),
             pairs, k + 1, mistakes, crashes)

RECURSIVE ApplyUpdates(_, _)
ApplyUpdates(cur_laptimes, updates) ==
    IF updates = <<>> THEN cur_laptimes
    ELSE ApplyUpdates(
             [cur_laptimes EXCEPT ![Head(updates)[1]] =
                  IF Head(updates)[2] >= Inf THEN Inf ELSE AddT(@, Head(updates)[2])],
             Tail(updates))

\* the pairs of the interaction part (race.rs:754-755)
InteractionPairs(r) == GetCarPairIdxsList(GetIdxListSortedByBiggestGap(r), TRUE)

\* interaction part (race.rs:752-891)
CalcInteractions(r, mistakes, crashes) ==
    LET acc == InteractFrom([r |-> r, updates |-> <<>>], InteractionPairs(r), 1,
                            mistakes, crashes)
    IN  [acc.r EXCEPT !.cur_laptimes = ApplyUpdates(@, acc.updates)]

\* Race::calc_cur_laptimes (race.rs:488-892)
CalcCurLaptimes(r, mistakes, crashes) ==
    LET r1 == CalcDirtyAir(CalcBaseLaptimes(r)) IN
    IF ScActive(r) THEN CalcScQueue(r1) ELSE CalcInteractions(r1, mistakes, crashes)

----------------------------------------------------------------------------
(* Race::simulate_timestep, safety car (race.rs:346-425) *)

\* the race leader the safety car starts in front of (race.rs:354-364):
\* the first running car of maximal progress, car 1 if none is running
ScLeaderIdx(r) ==
    LET running == {i \in CarIdxs(r) :
                       ~IsDNF(r, i) /\ GetRaceProg(r.cars_list[i].sh) > -TrackLength}
    IN  IF running = {} THEN 1
        ELSE CHOOSE i \in running :
                 \A j \in running :
                     \/ GetRaceProg(r.cars_list[j].sh) < GetRaceProg(r.cars_list[i].sh)
                     \/ (GetRaceProg(r.cars_list[j].sh) = GetRaceProg(r.cars_list[i].sh)
                         /\ i <= j)

\* the safety car enters the track without an event being logged
ScDeploySilent(r) == [r EXCEPT !.safety_car.active = TRUE]

\* the safety car enters the track (race.rs:351-381)
ScDeploy(r) ==
    LET s0 == GetSTracksCur(r.cars_list[ScLeaderIdx(r)].sh) + SC_START_OFFSET IN
    [r EXCEPT !.safety_car =
                  [active |-> TRUE,
                   s_track |-> IF s0 > TrackLength THEN s0 - TrackLength ELSE s0,
                   lap |-> IF s0 > TrackLength THEN r.cur_lap_leader + 1
                           ELSE r.cur_lap_leader],
              !.events = Append(@, Event("SC_DEPLOYED", r, <<>>))]

\* the safety car moves (race.rs:384-389)
ScMove(r) ==
    LET s0 == r.safety_car.s_track + (SC_SPEED * r.timestep_size) \div 1000 IN
    [r EXCEPT !.safety_car.s_track = IF s0 > TrackLength THEN s0 - TrackLength ELSE s0,
              !.safety_car.lap = IF s0 > TrackLength THEN @ + 1 ELSE @]

\* the safety car is logged in but stays on track
ScReleaseActiveKept(r) ==
    IF r.sc_timer <= 0
    THEN [r EXCEPT !.flag_state = "G",
                   !.events = Append(@, Event("SC_IN", r, <<>>))]
    ELSE r

\* the safety car comes in one step after its timer has run out
ScReleaseLate(r) ==
    IF r.sc_timer <= -r.timestep_size
    THEN [r EXCEPT !.flag_state = "G",
                   !.safety_car.active = FALSE,
                   !.events = Append(@, Event("SC_IN", r, <<>>))]
    ELSE r

\* the safety car comes in when its timer has run out (race.rs:391-402)
ScRelease(r) ==
    IF r.sc_timer <= 0
    THEN [r EXCEPT !.flag_state = "G",
                   !.safety_car.active = FALSE,
                   !.events = Append(@, Event("SC_IN", r, <<>>))]
    ELSE r

\* safety-car block of a step (race.rs:346-405)
ScBlock(r) ==
    IF r.flag_state = "Sc"
    THEN LET r1 == [r EXCEPT !.sc_timer = @ - r.timestep_size]
             r2 == IF ~r1.safety_car.active THEN ScDeploy(r1) ELSE r1
         IN  ScRelease(ScMove(r2))
    ELSE [r EXCEPT !.safety_car.active = FALSE]

\* a retired car that has not yet called the safety car (race.rs:411)
TriggersSc(r, i) == IsDNF(r, i) /\ ~r.race_finished[i] /\ ~r.sc_triggers[i]

\* a trigger that leaves the marks as they are
ScTriggerUnmarked(r) ==
    IF r.flag_state # "Sc" /\ \E i \in CarIdxs(r) : IsDNF(r, i) /\ ~r.race_finished[i]
    THEN [r EXCEPT !.flag_state = "Sc", !.sc_timer = SC_TIMER_MAX]
    ELSE r

\* a trigger that calls the virtual safety car
ScTriggerVsc(r) ==
    IF r.flag_state # "Sc" /\ \E i \in CarIdxs(r) : TriggersSc(r, i)
    THEN [r EXCEPT !.flag_state = "Vsc",
                   !.sc_timer = SC_TIMER_MAX,
                   !.sc_triggers = [j \in CarIdxs(r) |-> IsDNF(r, j) \/ @[j]]]
    ELSE r

\* safety-car trigger (race.rs:407-425)
ScTrigger(r) ==
    IF r.flag_state # "Sc" /\ \E i \in CarIdxs(r) : TriggersSc(r, i)
    THEN [r EXCEPT !.flag_state = "Sc",
                   !.sc_timer = SC_TIMER_MAX,
                   !.sc_triggers = [j \in CarIdxs(r) |-> IsDNF(r, j) \/ @[j]]]
    ELSE r

----------------------------------------------------------------------------
(* Race::handle_state_transitions (race.rs:1033-1064) *)

HandleStateTransitions(r) ==
    LET pairs == GetCarPairIdxsList(GetCarOrderOnTrack(r), FALSE)
        n == Len(pairs)
        delta_ts == [k \in 1..n |-> CalcProjectedDeltaT(r, pairs[k][1], pairs[k][2], 0)]
        PairOf(car_idx) == CHOOSE k \in 1..n : pairs[k][2] = car_idx
        NewSh(car_idx) ==
            LET k == PairOf(car_idx)
                car == r.cars_list[car_idx]
            IN  CheckStateTransition(car.sh, delta_ts[k], delta_ts[(k % n) + 1],
                                     PitThisLap(car, car.sh.compl_lap_cur + 1))
    IN  [r EXCEPT !.cars_list =
            [i \in CarIdxs(r) |-> [r.cars_list[i] EXCEPT !.sh = NewSh(i)]]]

\* update race progress of every car (race.rs:434-437)
UpdateRaceProgAll(r) ==
    [r EXCEPT !.cars_list =
        [i \in CarIdxs(r) |->
            [r.cars_list[i] EXCEPT
                !.sh = UpdateRaceProg(@, r.cur_laptimes[i], r.timestep_size)]]]

----------------------------------------------------------------------------
(* Race::calc_th_laptime, handle_pit_standstill, handle_lap_transitions *)

\* Race::calc_th_laptime (race.rs:458-484); th is the sampled lap time
\* lap_time_base + random_factor of a running car
CalcThLaptime(r, i, th) ==
    [r EXCEPT !.cur_th_laptimes[i] = IF IsDNF(r, i) THEN Inf ELSE th]

\* the car reaches its pit box in this step (race.rs:909-912)
EntersStandstill(car) ==
    /\ car.sh.pit_act
    /\ ~car.sh.pit_standstill_act
    /\ GetSTrackPassedThisStep(car.sh, car.pit_location)

\* the lap whose strategy entry a stop at the box executes (race.rs:927-942)
PitstopInlap(r, car) ==
    IF r.pits_aft_finishline THEN car.sh.compl_lap_cur ELSE car.sh.compl_lap_cur + 1

\* a pit stop that also fills the tank
PerformPitstopRefuel(car, inlap) ==
    IF HasTireChange(car, inlap)
    THEN LET entry == car.strategy[GetStrategyEntry(car.strategy, inlap)] IN
         [car EXCEPT !.tireset = NewTireset(entry.compound, entry.tire_start_age),
                     !.m_fuel = MFuel]
    ELSE car

\* Car::perform_pitstop (car.rs:192-217): the tire change
PerformPitstop(car, inlap) ==
    IF HasTireChange(car, inlap)
    THEN LET entry == car.strategy[GetStrategyEntry(car.strategy, inlap)] IN
         [car EXCEPT !.tireset = NewTireset(entry.compound, entry.tire_start_age),
                     !.last_slick_compound =
                         IF entry.compound \in Slicks THEN <<entry.compound>> ELSE @]
    ELSE car

\* one car of Race::handle_pit_standstill (race.rs:907-960); t_sampled is
\* the standstill time Car::t_add_pit_standstill samples for a tire change
PitStandstillCar(r, i, t_sampled, th) ==
    LET car == r.cars_list[i]
        t_part_drive ==
            IF ~r.pits_aft_finishline
            THEN MulDiv(car.pit_location - GetSTracksPrev(car.sh), r.cur_laptimes[i],
                        TrackLength)
            ELSE r.timestep_size
                     - MulDiv(GetSTracksCur(car.sh) - car.pit_location,
                              r.cur_laptimes[i], TrackLength)
        t_standstill_target ==
            IF HasTireChange(car, PitstopInlap(r, car)) THEN t_sampled ELSE 0
        sh0 == SetSTrack(ActPitStandstill(car.sh, r.timestep_size - t_part_drive,
                                          t_standstill_target),
                         car.pit_location)
        sh1 == [sh0 EXCEPT !.visit_pitstops = @ + 1]
    IN  IF EntersStandstill(car)
        THEN CalcThLaptime(
                 [r EXCEPT !.cars_list[i] =
                      [PerformPitstop(car, PitstopInlap(r, car)) EXCEPT !.sh = sh1]],
                 i, th)
        ELSE IF car.sh.pit_standstill_act
        THEN IF car.sh.state # "PitStandstill"
             THEN [r EXCEPT !.cars_list[i].sh.panicked = TRUE]
             ELSE IF CheckLeavesStandstill(car.sh, r.timestep_size) < 0
             THEN [r EXCEPT !.cars_list[i].sh = IncrementTStandstill(@, r.timestep_size)]
             ELSE [r EXCEPT !.cars_list[i].sh = DeactPitStandstill(@)]
        ELSE r

RECURSIVE PitStandstillFrom(_, _, _, _)
PitStandstillFrom(r, i, standstill, th) ==
    IF i > Len(r.cars_list) THEN r
    ELSE PitStandstillFrom(PitStandstillCar(r, i, standstill[i], th[i]),
                           i + 1, standstill, th)

\* Race::handle_pit_standstill (race.rs:905-962)
HandlePitStandstill(r, standstill, th) == PitStandstillFrom(r, 1, standstill, th)

\* the lap counter of the leader after looking at one car (race.rs:967-971)
NextLapLeader(cur_lap_leader, compl_lap_cur) ==
    IF compl_lap_cur >= cur_lap_leader THEN compl_lap_cur + 1 ELSE cur_lap_leader

\* the lap counter of the leader is taken from the cars still running
LapLeaderOfRunningCars(r, i, cur_lap_leader) ==
    LET running == {j \in CarIdxs(r) : ~IsDNF(r, j)} IN
    IF running = {} THEN cur_lap_leader
    ELSE LET j == CHOOSE j \in running : \A k \in running :
                      r.cars_list[k].sh.compl_lap_cur <= r.cars_list[j].sh.compl_lap_cur
         IN  r.cars_list[j].sh.compl_lap_cur + 1

\* the loop over the cars from car i on (race.rs:966-972)
RECURSIVE LapLeaderFrom(_, _, _)
LapLeaderFrom(r, i, cur_lap_leader) ==
    IF i > Len(r.cars_list) THEN cur_lap_leader
    ELSE LapLeaderFrom(r, i + 1,
             NextLapLeader(cur_lap_leader, r.cars_list[i].sh.compl_lap_cur))

\* the chequered flag falls when the leader starts the last lap
FinishRaceEarly(r) ==
    IF r.cur_lap_leader >= r.tot_no_laps /\ r.flag_state # "C"
    THEN [r EXCEPT !.flag_state = "C",
                   !.race_finished = [i \in CarIdxs(r) |-> TRUE]]
    ELSE r

\* the chequered flag falls (race.rs:983-989)
FinishRace(r) ==
    IF r.cur_lap_leader > r.tot_no_laps /\ r.flag_state # "C"
    THEN [r EXCEPT !.flag_state = "C",
                   !.race_finished = [i \in CarIdxs(r) |-> TRUE]]
    ELSE r

\* the race time at the end of a lap, counted from the start of the step
NewRacetimeStepStart(racetime_prev, laptime) == racetime_prev + laptime - 1

\* the race time at the end of a lap of lap time laptime (race.rs:1004-1006)
NewRacetime(racetime_prev, laptime) == racetime_prev + laptime

\* lap and race time of a completed lap are recorded (race.rs:995-1007)
RecordLap(r, i) ==
    LET sh == r.cars_list[i].sh
        k == sh.compl_lap_cur
        t_part_old == MulDiv(TrackLength - GetLapFracPrev(sh), r.cur_laptimes[i],
                             TrackLength)
        laptime == r.cur_racetime - r.timestep_size + t_part_old - r.racetimes[i][k - 1]
    IN  IF k <= r.tot_no_laps
        THEN [r EXCEPT !.laptimes[i][k] = laptime,
                       !.racetimes[i][k] = NewRacetime(r.racetimes[i][k - 1], laptime)]
        ELSE r

\* a lap that leaves the dirty-air wear factor as it is
DriveLapFactorKept(r, i, fails) ==
    LET car == r.cars_list[i]
        retires == FailureRatePerHour > 0 /\ fails
        car1 == [car EXCEPT
                    !.status = IF retires THEN "DNF" ELSE @,
                    !.m_fuel = IF @ > 0 THEN Max(@ - BFuelPerLap, 0) ELSE @,
                    !.tireset = TiresetDriveLap(@, car.dirty_air_wear_factor)]
    IN  IF IsDNF(r, i) THEN r
        ELSE [r EXCEPT !.cars_list[i] = car1,
                       !.events = IF retires
                                  THEN Append(@, Event("EngineFailure", r,
                                                       <<car.car_no>>))
                                  ELSE @]

\* Car::drive_lap (car.rs:140-172) with the EngineFailure event
\* (race.rs:1014-1024); fails is the outcome of the failure draw
DriveLap(r, i, fails) ==
    LET car == r.cars_list[i]
        retires == FailureRatePerHour > 0 /\ fails
        car1 == [car EXCEPT
                    !.status = IF retires THEN "DNF" ELSE @,
                    !.m_fuel = IF @ > 0 THEN Max(@ - BFuelPerLap, 0) ELSE @,
                    !.tireset = TiresetDriveLap(@, car.dirty_air_wear_factor),
                    !.dirty_air_wear_factor = 1000]
    IN  IF IsDNF(r, i) THEN r
        ELSE [r EXCEPT !.cars_list[i] = car1,
                       !.events = IF retires
                                  THEN Append(@, Event("EngineFailure", r,
                                                       <<car.car_no>>))
                                  ELSE @]

\* one car of the lap loop (race.rs:991-1028)
LapTransitionCar(r, i, fails, th) ==
    IF GetNewLap(r.cars_list[i].sh)
    THEN LET r1 == RecordLap(r, i)
             r2 == IF r1.flag_state = "C"
                   THEN [r1 EXCEPT !.race_finished[i] = TRUE] ELSE r1
         IN  CalcThLaptime(DriveLap(r2, i, fails), i, th)
    ELSE r

RECURSIVE LapTransitionsFrom(_, _, _, _)
LapTransitionsFrom(r, i, engine, th) ==
    IF i > Len(r.cars_list) THEN r
    ELSE LapTransitionsFrom(LapTransitionCar(r, i, engine[i], th[i]), i + 1, engine, th)

\* Race::handle_lap_transitions (race.rs:965-1030)
HandleLapTransitions(r, engine, th) ==
    LET r1 == [r EXCEPT !.cur_lap_leader = LapLeaderFrom(r, 1, r.cur_lap_leader)]
    IN  LapTransitionsFrom(FinishRace(r1), 1, engine, th)

----------------------------------------------------------------------------
(* Race::new and Race::simulate_timestep *)

\* Car::new (car.rs:73-99) with its state handler initialised by Race::new
\* (race.rs:251-264)
NewCar(pars, pit_location) ==
    [ car_no |-> pars.car_no,
      p_grid |-> pars.p_grid,
      status |-> "Running",
      strategy |-> pars.strategy,
      tireset |-> NewTireset(pars.strategy[1].compound,
                             pars.strategy[1].tire_start_age),
      dirty_air_wear_factor |-> 1000,
      m_fuel |-> MFuel,
      pit_location |-> pit_location,
      last_slick_compound |-> IF pars.strategy[1].compound \in Slicks
                              THEN <<pars.strategy[1].compound>> ELSE <<>>,
      driver |-> pars.driver,
      t_base |-> pars.t_base,
      sh |-> NewStateHandler(DFirstGridpos + (pars.p_grid - 1) * DPerGridpos) ]

\* Race::new (race.rs:139-268); car_pars is sorted by car number, th holds
\* the first theoretical lap time of every car
NewRace(timestep_size, race_pars, car_pars, th) ==
    LET tot_no_laps == race_pars.tot_no_laps IN
    [ timestep_size |-> timestep_size,
      cur_racetime |-> 0,
      weather_state |-> IF race_pars.initial_weather = "Rain" THEN "Rain" ELSE "Dry",
      rain_probability |-> race_pars.rain_probability,
      min_weather_duration_s |-> MinWeatherDuration,
      last_weather_change |-> 0,
      events |-> <<>>,
      safety_car |-> [active |-> FALSE, s_track |-> 0, lap |-> 0],
      sc_timer |-> 0,
      sc_triggers |-> [i \in 1..Len(car_pars) |-> FALSE],
      tot_no_laps |-> tot_no_laps,
      cur_lap_leader |-> 1,
      flag_state |-> "G",
      race_finished |-> [i \in 1..Len(car_pars) |-> FALSE],
      laptimes |-> [i \in 1..Len(car_pars) |-> [k \in 0..tot_no_laps |-> 0]],
      racetimes |-> [i \in 1..Len(car_pars) |-> [k \in 0..tot_no_laps |-> 0]],
      cur_laptimes |-> [i \in 1..Len(car_pars) |-> 0],
      cur_th_laptimes |-> th,
      pits_aft_finishline |-> race_pars.pits_aft_finishline,
      overtaking_zones |-> race_pars.overtaking_zones,
      cars_list |-> [i \in 1..Len(car_pars) |->
                        NewCar(car_pars[i], race_pars.pit_location)] ]

\* the lap times calc_th_laptime can produce for a running car
\* (race.rs:463-483): lap_time_base (t_base) alone for a fully consistent
\* driver, with the normal noise any of ThLaptimes otherwise
ThChoices(car) == IF car.driver.consistency < 100 THEN ThLaptimes ELSE {car.t_base}

\* without the Dry->Rain scheduling
RainStartsUnscheduled(car) == car

\* Dry->Rain for one car (race.rs:296-307)
RainStarts(car) ==
    IF car.status # "DNF" /\ GetCurrentCompound(car) \in Slicks
    THEN [car EXCEPT
             !.last_slick_compound = <<GetCurrentCompound(car)>>,
             !.strategy = ScheduleWeatherStrategy(@, car.sh.compl_lap_cur + 1,
                                                  "INTERMEDIATE")]
    ELSE car

\* the Rain->Dry scheduling with every stop on the next lap
DryStartsNextLap(car) ==
    LET target_slick == IF car.last_slick_compound # <<>>
                        THEN car.last_slick_compound[1] ELSE "MEDIUM"
    IN  IF car.status # "DNF" /\ GetCurrentCompound(car) \in {"INTERMEDIATE", "WET"}
        THEN [car EXCEPT !.strategy =
                  ScheduleWeatherStrategy(@, car.sh.compl_lap_cur + 1, target_slick)]
        ELSE car

\* Rain->Dry for one car (race.rs:321-336)
DryStarts(car) ==
    LET target_slick == IF car.last_slick_compound # <<>>
                        THEN car.last_slick_compound[1] ELSE "MEDIUM"
    IN  IF car.status = "DNF" THEN car
        ELSE IF GetCurrentCompound(car) = "INTERMEDIATE"
        THEN [car EXCEPT !.strategy =
                  ScheduleWeatherStrategy(@, car.sh.compl_lap_cur + 1, target_slick)]
        ELSE IF GetCurrentCompound(car) = "WET"
        THEN [car EXCEPT !.strategy =
                  ScheduleWeatherStrategy(@, car.sh.compl_lap_cur + 2, target_slick)]
        ELSE car

\* the weather block at the start of a step (race.rs:279-341); change is
\* the outcome of the draw rng.gen() < p_step
WeatherBlock(r, change) ==
    IF ~change THEN r
    ELSE IF r.weather_state = "Dry"
    THEN [r EXCEPT !.weather_state = "Rain",
                   !.last_weather_change = r.cur_racetime,
                   !.events = Append(@, Event("WeatherRainStart", r, <<>>)),
                   !.cars_list = [i \in CarIdxs(r) |-> RainStarts(r.cars_list[i])]]
    ELSE [r EXCEPT !.weather_state = "Dry",
                   !.last_weather_change = r.cur_racetime,
                   !.events = Append(@, Event("WeatherDryStart", r, <<>>)),
                   !.cars_list = [i \in CarIdxs(r) |-> DryStarts(r.cars_list[i])]]

\* a weather draw in every step, whenever the weather last changed
WeatherDrawsAnyTime(r) == IF r.rain_probability = 0 THEN {FALSE} ELSE BOOLEAN

\* the outcomes of the weather draw (race.rs:280-283): p_step is
\* rain_probability * timestep_size / 60, rain_probability in 1/1000 per
\* minute and timestep_size in ms
WeatherDraws(r) ==
    IF r.cur_racetime - r.last_weather_change < r.min_weather_duration_s
           \/ r.rain_probability = 0
    THEN {FALSE}
    ELSE IF r.rain_probability * r.timestep_size >= 60000 * 1000
    THEN {TRUE}
    ELSE BOOLEAN

\* a step after the weather block, up to the integration of the positions
\* (race.rs:344-437)
Integrate(r, mistakes, crashes) ==
    LET r1 == ScTrigger(ScBlock([r EXCEPT !.cur_racetime = @ + r.timestep_size]))
    IN  UpdateRaceProgAll(HandleStateTransitions(CalcCurLaptimes(r1, mistakes, crashes)))

\* second part of a step (race.rs:439-450)
Complete(r, engine, th, standstill) ==
    IF ~r.pits_aft_finishline
    THEN HandleLapTransitions(HandlePitStandstill(r, standstill, th), engine, th)
    ELSE HandlePitStandstill(HandleLapTransitions(r, engine, th), standstill, th)

\* Race::simulate_timestep (race.rs:275-451) under the random draws rnd
SimulateTimestep(r, rnd) ==
    Complete(Integrate(WeatherBlock(r, rnd.weather), rnd.mistakes, rnd.crashes),
             rnd.engine, rnd.th, rnd.standstill)

\* the draws of the interaction part that can differ from "nothing happens"
InteractionDraws(r) ==
    LET r1 == ScTrigger(ScBlock([r EXCEPT !.cur_racetime = @ + r.timestep_size]))
        rb == CalcDirtyAir(CalcBaseLaptimes(r1))
        pairs == IF ScActive(r1) THEN <<>> ELSE InteractionPairs(rb)
        n == Len(pairs)
        CanCrash(k) == /\ ~IsDNF(rb, pairs[k][1]) /\ ~IsDNF(rb, pairs[k][2])
                       /\ ~rb.cars_list[pairs[k][1]].sh.pit_act
                       /\ ~rb.cars_list[pairs[k][2]].sh.pit_act
    IN  { [mistakes |-> m, crashes |-> c] :
            m \in { mm \in [1..n -> MistakeKinds] :
                      \A k \in 1..n : mm[k] # "none" =>
                          MistakePossible(rb, pairs[k][1], pairs[k][2]) },
            c \in { cc \in [1..n -> BOOLEAN] : \A k \in 1..n : cc[k] => CanCrash(k) } }

\* the draws of the lap and pit part, given the race after integration
LapDraws(r) ==
    LET n == Len(r.cars_list)
        CanFail(i) == GetNewLap(r.cars_list[i].sh) /\ ~IsDNF(r, i)
                          /\ FailureRatePerHour > 0
        Resamples(i) == GetNewLap(r.cars_list[i].sh) \/ EntersStandstill(r.cars_list[i])
        Stops(i) == /\ EntersStandstill(r.cars_list[i])
                    /\ HasTireChange(r.cars_list[i], PitstopInlap(r, r.cars_list[i]))
    IN  { [engine |-> e, th |-> t, standstill |-> st] :
            e \in { ee \in [1..n -> BOOLEAN] : \A i \in 1..n : ee[i] => CanFail(i) },
            t \in { tt \in [1..n -> ThLaptimes \cup {r.cars_list[i].t_base : i \in 1..n}] :
                      \A i \in 1..n :
                          IF Resamples(i) /\ ~IsDNF(r, i)
                          THEN tt[i] \in ThChoices(r.cars_list[i])
                          ELSE tt[i] = r.cars_list[i].t_base },
            st \in { ss \in [1..n -> StandstillTimes \cup {0}] :
                      \A i \in 1..n : IF Stops(i) THEN ss[i] \in StandstillTimes
                                      ELSE ss[i] = 0 } }

----------------------------------------------------------------------------
(* handle_race (handle_race.rs:14-172) *)

\* Race::get_race_result (race.rs:1078-1096)
GetRaceResult(r) ==
    [ tot_no_laps |-> r.tot_no_laps,
      laptimes |-> r.laptimes,
      racetimes |-> r.racetimes,
      sc_active |-> r.safety_car.active,
      events |-> r.events ]

\* a mid-race snapshot that carries the result
SnapshotWithResult(r) ==
    [ flag_state |-> r.flag_state,
      sc_active |-> r.safety_car.active,
      final_result |-> <<GetRaceResult(r)>> ]

\* the mid-race snapshot (handle_race.rs:75-82); an Option is a sequence
\* of length 0 (None) or 1 (Some)
Snapshot(r) ==
    [ flag_state |-> r.flag_state,
      sc_active |-> r.safety_car.active,
      final_result |-> <<>> ]

\* the final message (handle_race.rs:151-159)
FinalMsg(r) ==
    [ flag_state |-> r.flag_state,
      sc_active |-> r.safety_car.active,
      final_result |-> <<GetRaceResult(r)>> ]

\* a snapshot after every step
SnapshotDueEveryStep(r, t_update_gui) == TRUE

\* a snapshot is due after this step (handle_race.rs:68)
SnapshotDue(r, t_update_gui) ==
    r.cur_racetime > t_update_gui + GUI_PERIOD - GUI_SLACK

\* handle_race goes on after a send that failed
SendIgnoringFailure(alive) == "sent"

\* what handle_race does with the result of Sender::send
\* (handle_race.rs:132-134, 160): "sent", or "err" for the ? on a
\* disconnected channel
SendOutcome(alive) == IF alive THEN "sent" ELSE "err"

\* one iteration of the driver loop (handle_race.rs:40-53, 58-147) with
\* the race after simulate_timestep
LoopIteration(r) ==
    /\ race' = r
    /\ IF \E i \in CarIdxs(r) : r.cars_list[i].sh.panicked
       THEN /\ pc' = "panic"
            /\ UNCHANGED <<sent, sent_at, failed_sends, t_race_update_gui>>
       ELSE IF sim_realtime /\ SnapshotDue(r, t_race_update_gui)
       THEN LET outcome == SendOutcome(rx_alive) IN
            /\ sent' = IF rx_alive THEN Append(sent, Snapshot(r)) ELSE sent
            /\ sent_at' = IF rx_alive THEN Append(sent_at, r.cur_racetime)
                           ELSE sent_at
            /\ failed_sends' = IF rx_alive THEN failed_sends ELSE failed_sends + 1
            /\ pc' = IF outcome = "err" THEN "err" ELSE pc
            /\ t_race_update_gui' = IF outcome = "err" THEN t_race_update_gui
                                    ELSE r.cur_racetime
       ELSE UNCHANGED <<sent, sent_at, failed_sends, pc, t_race_update_gui>>
    /\ UNCHANGED <<sim_realtime, rx_alive>>

\* the step that starts from r finds the queue lined up behind the safety
\* car (race.rs:660, 744-749)
LinedUpInStep(r) ==
    LET r1 == ScTrigger(ScBlock([r EXCEPT !.cur_racetime = @ + r.timestep_size]))
    IN  ScActive(r1) /\ LineupOk(r1)

\* the loop runs one step of the race, explored up to the race time horizon
StepWithin(horizon) ==
    /\ pc = "loop"
    /\ ~GetAllFinished(race)
    /\ race.cur_racetime < horizon
    /\ lineups' = IF LinedUpInStep(race)
                  THEN Append(lineups, race.cur_racetime + race.timestep_size)
                  ELSE lineups
    /\ \E change \in WeatherDraws(race) :
         LET r0 == WeatherBlock(race, change) IN
         \E d1 \in InteractionDraws(r0) :
             LET r3 == Integrate(r0, d1.mistakes, d1.crashes) IN
             \E d2 \in LapDraws(r3) :
                 LoopIteration(Complete(r3, d2.engine, d2.th, d2.standstill))

HandleRaceStep == StepWithin(MaxRaceTime)

\* the loop ends: the final message and the return (handle_race.rs:149-171)
HandleRaceFinish ==
    /\ pc = "loop"
    /\ GetAllFinished(race)
    /\ IF sim_realtime
       THEN LET outcome == SendOutcome(rx_alive) IN
            /\ sent' = IF rx_alive THEN Append(sent, FinalMsg(race)) ELSE sent
            /\ sent_at' = IF rx_alive THEN Append(sent_at, race.cur_racetime)
                           ELSE sent_at
            /\ failed_sends' = IF rx_alive THEN failed_sends ELSE failed_sends + 1
            /\ pc' = IF outcome = "err" THEN "err" ELSE "ok"
       ELSE /\ pc' = "ok"
            /\ UNCHANGED <<sent, sent_at, failed_sends>>
    /\ UNCHANGED <<race, sim_realtime, rx_alive, lineups, t_race_update_gui>>

\* the consumer drops the Receiver while handle_race runs
DropReceiver ==
    /\ pc = "loop"
    /\ sim_realtime
    /\ rx_alive
    /\ rx_alive' = FALSE
    /\ UNCHANGED <<race, pc, sim_realtime, sent, sent_at, lineups, failed_sends,
                   t_race_update_gui>>

\* RacePars of a dry race without weather changes (race.rs:31-44)
DryRace(tot_no_laps) ==
    [ tot_no_laps |-> tot_no_laps, initial_weather |-> "Dry", rain_probability |-> 0,
      pits_aft_finishline |-> PitsAftFinishline, pit_location |-> PitLocation,
      overtaking_zones |-> OvertakingZones ]

\* CarPars and DriverPars of the scenarios (car.rs:31-51, driver.rs), sorted
\* by car number: car 5 starts first with a fully consistent driver, car 44
\* starts second and, in one scenario, changes tires at the end of lap 1;
\* t_base is the lap_time_base of the car (race.rs:479-481), tire and fuel
\* effects left out
Car5 ==
    [ car_no |-> 5, p_grid |-> 1, t_base |-> 6000,
      strategy |-> << [inlap |-> 0, tire_start_age |-> 0, compound |-> "MEDIUM"] >>,
      driver |-> [consistency |-> 100, aggression |-> 50] ]

Car44(strategy) ==
    [ car_no |-> 44, p_grid |-> 2, t_base |-> 12000,
      strategy |-> strategy,
      driver |-> [consistency |-> 90, aggression |-> 50] ]

OneStop ==
    << [inlap |-> 0, tire_start_age |-> 0, compound |-> "SOFT"],
       [inlap |-> 1, tire_start_age |-> 2, compound |-> "MEDIUM"] >>

NoStop == << [inlap |-> 0, tire_start_age |-> 0, compound |-> "MEDIUM"] >>

CarPars == { <<Car5, Car44(OneStop)>>, <<Car5, Car44(NoStop)>> }

\* the first theoretical lap times Race::new can compute (race.rs:246)
InitialTh(car_pars) ==
    { th \in [1..Len(car_pars) -> ThLaptimes \cup {car_pars[i].t_base : i \in 1..Len(car_pars)}] :
        \A i \in 1..Len(car_pars) : th[i] \in ThChoices(car_pars[i]) }

\* handle_race is entered (handle_race.rs:24-36, 55-56)
Init ==
    /\ \E car_pars \in CarPars : \E th \in InitialTh(car_pars) :
           race = NewRace(Timestep, DryRace(TotNoLaps), car_pars, th)
    /\ pc = "loop"
    /\ sim_realtime \in BOOLEAN
    /\ rx_alive = sim_realtime
    /\ sent = <<>>
    /\ sent_at = <<>>
    /\ lineups = <<>>
    /\ failed_sends = 0
    /\ t_race_update_gui = 0

Next == HandleRaceStep \/ HandleRaceFinish \/ DropReceiver

Spec == Init /\ [][Next]_vars

----------------------------------------------------------------------------
(* Long headless runs: a whole safety-car period *)

\* two cars with fully consistent drivers and no pit stop: in one scenario
\* the second is about half as fast as the first, in the other both are
\* equally fast and start the race side by side in time
Car44Long(t_base) ==
    [ car_no |-> 44, p_grid |-> 2, t_base |-> t_base,
      strategy |-> NoStop,
      driver |-> [consistency |-> 100, aggression |-> 50] ]

CarParsLong == { <<Car5, Car44Long(11500)>>, <<Car5, Car44Long(6000)>> }

InitLong ==
    /\ \E car_pars \in CarParsLong : \E th \in InitialTh(car_pars) :
           race = NewRace(TimestepLong, DryRace(TotNoLapsLong), car_pars, th)
    /\ pc = "loop"
    /\ sim_realtime = FALSE
    /\ rx_alive = FALSE
    /\ sent = <<>>
    /\ sent_at = <<>>
    /\ lineups = <<>>
    /\ failed_sends = 0
    /\ t_race_update_gui = 0

HandleRaceStepLong == StepWithin(MaxRaceTimeLong)

NextLong == HandleRaceStepLong \/ HandleRaceFinish

SpecLong == InitLong /\ [][NextLong]_vars

----------------------------------------------------------------------------
(* Real-time runs of one car at several step sizes: the snapshot rate *)

MaxRaceTimeGui == 7000

\* the step sizes of the runs, in ms
GuiTimesteps == {1, 10, 49, 50, 1000}

InitGui ==
    /\ \E timestep_size \in GuiTimesteps : \E th \in InitialTh(<<Car5>>) :
           race = NewRace(timestep_size, DryRace(1), <<Car5>>, th)
    /\ pc = "loop"
    /\ sim_realtime = TRUE
    /\ rx_alive = TRUE
    /\ sent = <<>>
    /\ sent_at = <<>>
    /\ lineups = <<>>
    /\ failed_sends = 0
    /\ t_race_update_gui = 0

HandleRaceStepGui == StepWithin(MaxRaceTimeGui)

NextGui == HandleRaceStepGui \/ HandleRaceFinish

SpecGui == InitGui /\ [][NextGui]_vars

----------------------------------------------------------------------------
(* Headless runs with changing weather *)

MaxRaceTimeWeather == 16000

\* RacePars with a rain probability of 0.2 per minute (race.rs:31-44)
WetRace(initial_weather) ==
    [ tot_no_laps |-> TotNoLaps, initial_weather |-> initial_weather,
      rain_probability |-> 200,
      pits_aft_finishline |-> PitsAftFinishline, pit_location |-> PitLocation,
      overtaking_zones |-> OvertakingZones ]

\* car 5 without a planned stop, car 44 on a used set with a planned stop
\* for HARD at the end of lap 2; both drivers fully consistent
Car5Weather(compound) ==
    [ car_no |-> 5, p_grid |-> 1, t_base |-> 6000,
      strategy |-> << [inlap |-> 0, tire_start_age |-> 0, compound |-> compound] >>,
      driver |-> [consistency |-> 100, aggression |-> 50] ]

Car44Weather(compound) ==
    [ car_no |-> 44, p_grid |-> 2, t_base |-> 9000,
      strategy |-> << [inlap |-> 0, tire_start_age |-> 1, compound |-> compound],
                      [inlap |-> 2, tire_start_age |-> 2, compound |-> "HARD"] >>,
      driver |-> [consistency |-> 100, aggression |-> 50] ]

CarParsWeather ==
    { <<Car5Weather("MEDIUM"), Car44Weather("WET")>>,
      <<Car5Weather("INTERMEDIATE"), Car44Weather("SOFT")>>,
      <<[Car5Weather("MEDIUM") EXCEPT !.t_base = 15000], Car44Weather("SOFT")>> }

InitWeather ==
    /\ \E initial_weather \in {"Dry", "Rain"} : \E car_pars \in CarParsWeather :
       \E th \in InitialTh(car_pars) :
           race = NewRace(Timestep, WetRace(initial_weather), car_pars, th)
    /\ pc = "loop"
    /\ sim_realtime = FALSE
    /\ rx_alive = FALSE
    /\ sent = <<>>
    /\ sent_at = <<>>
    /\ lineups = <<>>
    /\ failed_sends = 0
    /\ t_race_update_gui = 0

HandleRaceStepWeather == StepWithin(MaxRaceTimeWeather)

NextWeather == HandleRaceStepWeather \/ HandleRaceFinish

SpecWeather == InitWeather /\ [][NextWeather]_vars

----------------------------------------------------------------------------
(* Car::schedule_weather_strategy called in any order on one car *)

MaxInlap == 3

\* the compounds the weather block schedules (race.rs:303, 324-332)
ScheduleCompounds == {"INTERMEDIATE", "MEDIUM", "SOFT"}

\* strategies of a car with at most one entry per inlap: the start entry
\* alone or with one planned stop
StartStrategies ==
    { << [inlap |-> 0, tire_start_age |-> 0, compound |-> c] >> : c \in {"SOFT", "WET"} }
    \cup { << [inlap |-> 0, tire_start_age |-> 0, compound |-> "SOFT"],
              [inlap |-> k, tire_start_age |-> 2, compound |-> "HARD"] >> :
            k \in 1..MaxInlap }

InitSchedule ==
    /\ \E strategy \in StartStrategies :
       \E th \in InitialTh(<<[Car5 EXCEPT !.strategy = strategy]>>) :
           race = NewRace(Timestep, DryRace(TotNoLaps),
                          <<[Car5 EXCEPT !.strategy = strategy]>>, th)
    /\ pc = "loop"
    /\ sim_realtime = FALSE
    /\ rx_alive = FALSE
    /\ sent = <<>>
    /\ sent_at = <<>>
    /\ lineups = <<>>
    /\ failed_sends = 0
    /\ t_race_update_gui = 0

\* one call of schedule_weather_strategy on the car
ScheduleCall ==
    /\ \E inlap \in 1..MaxInlap : \E compound \in ScheduleCompounds :
           race' = [race EXCEPT !.cars_list[1].strategy =
                        ScheduleWeatherStrategy(@, inlap, compound)]
    /\ UNCHANGED <<pc, sim_realtime, rx_alive, sent, sent_at, lineups,
                   failed_sends, t_race_update_gui>>

NextSchedule == ScheduleCall

SpecSchedule == InitSchedule /\ [][NextSchedule]_vars

----------------------------------------------------------------------------
(* Headless runs of scenarios in which two cars may share a grid position *)

\* the grid positions the scenario files can give car 44 (car.rs:31-51)
GridPositions == {1, 2}

CarParsGrid ==
    { <<Car5, [Car44(NoStop) EXCEPT !.p_grid = p_grid]>> : p_grid \in GridPositions }

\* Race::new takes the cars as they are configured (race.rs:164-186,
\* 243-265): no check of p_grid
InitGrid ==
    /\ \E car_pars \in CarParsGrid : \E th \in InitialTh(car_pars) :
           race = NewRace(Timestep, DryRace(TotNoLaps), car_pars, th)
    /\ pc = "loop"
    /\ sim_realtime = FALSE
    /\ rx_alive = FALSE
    /\ sent = <<>>
    /\ sent_at = <<>>
    /\ lineups = <<>>
    /\ failed_sends = 0
    /\ t_race_update_gui = 0

NextGrid == HandleRaceStep \/ HandleRaceFinish

SpecGrid == InitGrid /\ [][NextGrid]_vars

----------------------------------------------------------------------------
(* Scenario: a track with the pit box before the finish line *)

\* RacePars and TrackPars of a dry race on a track with the pit box 20 m
\* after the line (pits_aft_finishline) or 20 m before it
DryRacePits(pits_aft_finishline, pit_location) ==
    [DryRace(TotNoLaps) EXCEPT
        !.pits_aft_finishline = pits_aft_finishline,
        !.pit_location = pit_location]

\* car 5 with a stop at the end of lap 1 in front of car 44 without a stop
CarParsPits == <<[Car5 EXCEPT !.strategy = OneStop], Car44(NoStop)>>

InitPits ==
    /\ \E pits_aft_finishline \in BOOLEAN :
       \E pit_location \in IF pits_aft_finishline THEN {PitLocation}
                            ELSE {PitLocationBefore, PitLocationEntry} :
       \E th \in InitialTh(CarParsPits) :
           race = NewRace(TimestepLong,
                          DryRacePits(pits_aft_finishline, pit_location),
                          CarParsPits, th)
    /\ pc = "loop"
    /\ sim_realtime = FALSE
    /\ rx_alive = FALSE
    /\ sent = <<>>
    /\ sent_at = <<>>
    /\ lineups = <<>>
    /\ failed_sends = 0
    /\ t_race_update_gui = 0

NextPits == HandleRaceStep \/ HandleRaceFinish

SpecPits == InitPits /\ [][NextPits]_vars

----------------------------------------------------------------------------
(* Scenario: tracks that differ in the overtaking zones *)

\* tot_no_laps of the scenario
TotNoLapsZones == 6

\* TrackPars.overtaking_zones (track.rs:29-50): the back straight only
OvertakingZonesBack == << <<300, 450>> >>

\* a stop for MEDIUM at the end of lap 4
LateStop ==
    << [inlap |-> 0, tire_start_age |-> 0, compound |-> "SOFT"],
       [inlap |-> 4, tire_start_age |-> 2, compound |-> "MEDIUM"] >>

\* two cars of the same pace, the second without a stop or with a late one,
\* or a slow car in front of a fast one
CarParsZones ==
    { <<Car5, Car44Long(6000)>>,
      <<Car5, [Car44Long(6000) EXCEPT !.strategy = LateStop]>>,
      <<[Car5 EXCEPT !.t_base = 7000], Car44Long(6000)>> }

InitZones ==
    /\ \E overtaking_zones \in {OvertakingZones, OvertakingZonesBack} :
       \E car_pars \in CarParsZones : \E th \in InitialTh(car_pars) :
           race = NewRace(TimestepLong,
                          [DryRace(TotNoLapsZones) EXCEPT
                              !.overtaking_zones = overtaking_zones],
                          car_pars, th)
    /\ pc = "loop"
    /\ sim_realtime = FALSE
    /\ rx_alive = FALSE
    /\ sent = <<>>
    /\ sent_at = <<>>
    /\ lineups = <<>>
    /\ failed_sends = 0
    /\ t_race_update_gui = 0

SpecZones == InitZones /\ [][NextLong]_vars

----------------------------------------------------------------------------
(* Properties *)

\* a step of the race has been simulated
StepDone == race'.cur_racetime # race.cur_racetime

\* indices of the logged events of one kind
EventIdxs(kind) == {k \in 1..Len(race.events) : race.events[k].kind = kind}

\* the last SC_DEPLOYED event before position k of the log, 0 if none
LastDeployBefore(k) ==
    IF \E j \in 1..(k - 1) : race.events[j].kind = "SC_DEPLOYED"
    THEN CHOOSE j \in 1..(k - 1) :
             /\ race.events[j].kind = "SC_DEPLOYED"
             /\ \A m \in (j + 1)..(k - 1) : race.events[m].kind # "SC_DEPLOYED"
    ELSE 0

\* every car has retired and the loop condition of handle_race still holds
DeadRace(r) == ~GetAllFinished(r) /\ \A i \in CarIdxs(r) : IsDNF(r, i)

\* C1: a headless run always terminates, also when every car is DNF: the
\* loop never stands in a race in which every car has retired while
\* get_all_finished() is false (from there no step can end the loop, see
\* C1_DeadRaceStays).
C1_HeadlessRunTerminates ==
    (pc = "loop" /\ ~sim_realtime) => ~DeadRace(race)

\* Once every car has retired before the chequered flag, every further
\* step leaves get_all_finished() false.
C1_DeadRaceStays == [][DeadRace(race) => DeadRace(race')]_vars

\* C2: at construction and at the end of every step the current position
\* get_s_tracks() reports for a car lies in [0, L).
C2_PositionInRange ==
    \A i \in CarIdxs(race) :
        /\ 0 <= GetSTracksCur(race.cars_list[i].sh)
        /\ GetSTracksCur(race.cars_list[i].sh) < TrackLength

\* C3: for every car i and lap k in 1..tot_no_laps with laptimes[i][k] > 0,
\* racetimes[i][k] = racetimes[i][k-1] + laptimes[i][k].
C3_RacetimesAccumulate ==
    \A i \in CarIdxs(race) : \A k \in 1..race.tot_no_laps :
        race.laptimes[i][k] > 0 =>
            race.racetimes[i][k] = race.racetimes[i][k - 1] + race.laptimes[i][k]

C3_SecondLapRecorded ==
    \E i \in CarIdxs(race) : race.laptimes[i][1] > 0 /\ race.laptimes[i][2] > 0

\* C4: once a car is DNF it stays DNF, in every later step its cur_laptime
\* is infinite when the positions are integrated, and its position and its
\* completed-lap counter do not increase.
C4_DnfNeverAdvances ==
    [][\A i \in CarIdxs(race) :
          IsDNF(race, i) =>
              /\ IsDNF(race', i)
              /\ StepDone => race'.cur_laptimes[i] = Inf
              /\ race'.cars_list[i].sh.s_track_cur <= race.cars_list[i].sh.s_track_cur
              /\ race'.cars_list[i].sh.compl_lap_cur <= race.cars_list[i].sh.compl_lap_cur
      ]_vars

C4_DnfCarSteppedOn ==
    \E i \in CarIdxs(race) :
        /\ IsDNF(race, i)
        /\ race.sc_triggers[i]
        /\ race.cur_laptimes[i] = Inf
        /\ \E j \in CarIdxs(race) : ~IsDNF(race, j) /\ race.cur_laptimes[j] < Inf

\* a car has retired in the step just simulated, under the green flag
NewDnfUnderGreen(on_track_only) ==
    /\ race.flag_state = "G"
    /\ \E i \in CarIdxs(race) :
           /\ TriggersSc(race, i)
           /\ on_track_only => race.cars_list[i].sh.state # "Pitlane"

\* C5 (as the code has it): after a car has become DNF under the green
\* flag, the next step calls the safety car, so that the flag at its end is
\* SC, or C if the race is finished in that step, and every retired car is
\* marked as handled; the step after a step ending under SC without the
\* safety car on track logs SC_DEPLOYED first.  The leader may complete a
\* lap in the step in between.
C5_ScCalledThenDeployed ==
    [][StepDone =>
          /\ NewDnfUnderGreen(FALSE) =>
                 /\ race'.flag_state \in {"Sc", "C"}
                 /\ \A i \in CarIdxs(race) : IsDNF(race, i) => race'.sc_triggers[i]
          /\ (race.flag_state = "Sc" /\ ~race.safety_car.active) =>
                 /\ Len(race'.events) > Len(race.events)
                 /\ race'.events[Len(race.events) + 1].kind = "SC_DEPLOYED"
      ]_vars

C5_DeployedAfterDnf ==
    /\ race.flag_state = "Sc"
    /\ race.safety_car.active
    /\ \E k \in EventIdxs("SC_DEPLOYED") :
           /\ k > 1
           /\ race.events[k - 1].kind \in {"Crash", "EngineFailure"}
           /\ race.events[k].time_s = race.cur_racetime

\* C5 (as stated): after a car has become DNF outside the Pitlane with the
\* flag neither SC nor C, the flag is SC at the end of the next step, and
\* the leader completes no lap before SC_DEPLOYED is logged, which no step
\* does before the one after the next.
C5_ScBeforeNextLap ==
    [][(StepDone /\ NewDnfUnderGreen(TRUE)) =>
          /\ race'.flag_state = "Sc"
          /\ race'.cur_lap_leader = race.cur_lap_leader
      ]_vars

C7_ChequeredIffLeaderDone ==
    /\ race.flag_state = "C" <=> race.cur_lap_leader > race.tot_no_laps
    /\ race.flag_state = "C" => \A i \in CarIdxs(race) : race.race_finished[i]

C7_ChequeredFlag ==
    /\ race.flag_state = "C"
    /\ \E i \in CarIdxs(race) : race.cars_list[i].sh.compl_lap_cur < race.tot_no_laps

\* C8: cur_lap_leader never decreases from one step to the next.
C8_LapLeaderMonotone == [][race'.cur_lap_leader >= race.cur_lap_leader]_vars

C8_LeaderAheadOfLastCar ==
    /\ race.cur_lap_leader > 1
    /\ race.cars_list[Len(race.cars_list)].sh.compl_lap_cur + 1 < race.cur_lap_leader

C10_OneFinalResultLast ==
    (sim_realtime /\ pc = "ok") =>
        /\ sent # <<>>
        /\ sent[Len(sent)].final_result # <<>>
        /\ \A k \in 1..(Len(sent) - 1) : sent[k].final_result = <<>>

C10_CompletedWithSnapshots ==
    /\ sim_realtime
    /\ pc = "ok"
    /\ Len(sent) > 2

\* the positions in sent of the mid-race snapshots
MidRaceIdxs == {k \in 1..Len(sent) : sent[k].final_result = <<>>}

\* C11: two consecutive mid-race snapshots are more than
\* 1/MAX_GUI_UPDATE_FREQUENCY - 0.001 s of race time apart, and no more than
\* MAX_GUI_UPDATE_FREQUENCY + 1 of them fall in one race second, whatever
\* the step size
C11_SnapshotRateLimited ==
    /\ \A k \in MidRaceIdxs :
           k + 1 \in MidRaceIdxs
               => sent_at[k + 1] - sent_at[k] > GUI_PERIOD - GUI_SLACK
    /\ \A k \in MidRaceIdxs :
           k + MAX_GUI_UPDATE_FREQUENCY + 1 \in MidRaceIdxs
               => sent_at[k + MAX_GUI_UPDATE_FREQUENCY + 1] - sent_at[k] > 1000

\* C11 witness: a run with 1 ms steps has sent more than
\* MAX_GUI_UPDATE_FREQUENCY + 1 snapshots
C11_ManySnapshotsSmallSteps ==
    /\ race.timestep_size = 1
    /\ Cardinality(MidRaceIdxs) > MAX_GUI_UPDATE_FREQUENCY + 1

\* the strategy of a car holds an entry of this inlap and compound
Scheduled(car, inlap, compound) ==
    \E k \in 1..Len(car.strategy) :
        car.strategy[k].inlap = inlap /\ car.strategy[k].compound = compound

\* the slick a car goes back to when the track dries (race.rs:324)
TargetSlick(car) ==
    IF car.last_slick_compound # <<>> THEN car.last_slick_compound[1] ELSE "MEDIUM"

\* C12: in the step in which the weather changes from Dry to Rain, every
\* car that was not DNF and ran SOFT, MEDIUM or HARD gets a strategy entry
\* for INTERMEDIATE at its completed laps + 1, and every other car (on
\* INTERMEDIATE or WET, or DNF) keeps its strategy
C12_RainSchedulesIntermediate ==
    [][ race.weather_state = "Dry" /\ race'.weather_state = "Rain"
          => \A i \in CarIdxs(race) :
                 LET car == race.cars_list[i] IN
                 IF car.status # "DNF" /\ GetCurrentCompound(car) \in Slicks
                 THEN Scheduled(race'.cars_list[i], car.sh.compl_lap_cur + 1,
                                "INTERMEDIATE")
                 ELSE race'.cars_list[i].strategy = car.strategy ]_vars

\* C12 witness: rain has started; a car on a slick has the INTERMEDIATE stop
\* on its second inlap, in the entry it had planned for HARD, and a car on
\* INTERMEDIATE has the strategy it started with
C12_RainStartedOnSlicks ==
    /\ race.weather_state = "Rain"
    /\ EventIdxs("WeatherRainStart") # {}
    /\ \E i, j \in CarIdxs(race) :
          /\ race.cars_list[i].status # "DNF"
          /\ GetCurrentCompound(race.cars_list[i]) = "SOFT"
          /\ race.cars_list[i].strategy[2] =
                 [inlap |-> 2, tire_start_age |-> 2, compound |-> "INTERMEDIATE"]
          /\ GetCurrentCompound(race.cars_list[j]) = "INTERMEDIATE"
          /\ race.cars_list[j].strategy = Car5Weather("INTERMEDIATE").strategy

\* C13: in the step in which the weather changes from Rain to Dry, every
\* car that was not DNF gets a strategy entry for its last slick compound
\* (MEDIUM if it never ran a slick): at its completed laps + 1 if it ran
\* INTERMEDIATE, at its completed laps + 2 if it ran WET
C13_DrySchedulesSlick ==
    [][ race.weather_state = "Rain" /\ race'.weather_state = "Dry"
          => \A i \in CarIdxs(race) :
                 LET car == race.cars_list[i] IN
                 /\ car.status # "DNF" /\ GetCurrentCompound(car) = "INTERMEDIATE"
                       => /\ Scheduled(race'.cars_list[i], car.sh.compl_lap_cur + 1,
                                       TargetSlick(car))
                          /\ TargetSlick(car) \in Slicks
                 /\ car.status # "DNF" /\ GetCurrentCompound(car) = "WET"
                       => /\ Scheduled(race'.cars_list[i], car.sh.compl_lap_cur + 2,
                                       TargetSlick(car))
                          /\ TargetSlick(car) \in Slicks ]_vars

\* C13 witness: the track has dried in the last step; a car on WET that
\* never ran a slick has a stop for MEDIUM two laps on
C13_DriedOnWet ==
    /\ race.weather_state = "Dry"
    /\ race.last_weather_change = race.cur_racetime - race.timestep_size
    /\ EventIdxs("WeatherDryStart") # {}
    /\ \E i \in CarIdxs(race) :
          /\ race.cars_list[i].status # "DNF"
          /\ GetCurrentCompound(race.cars_list[i]) = "WET"
          /\ race.cars_list[i].last_slick_compound = <<>>
          /\ race.cars_list[i].sh.compl_lap_cur = 0
          /\ Scheduled(race.cars_list[i], 2, "MEDIUM")

\* a strategy has at most one entry per inlap
UniqueInlaps(strategy) ==
    \A k, m \in 1..Len(strategy) : strategy[k].inlap = strategy[m].inlap => k = m

\* strategy t is strategy s with nothing but the compound of the entry of
\* this inlap overwritten
OnlyCompoundOverwritten(s, t, inlap, compound) ==
    /\ Len(t) = Len(s)
    /\ \A k \in 1..Len(s) :
          IF s[k].inlap = inlap
          THEN t[k] = [s[k] EXCEPT !.compound = compound]
          ELSE t[k] = s[k]

\* C14: schedule_weather_strategy, called in any order on a strategy with
\* at most one entry per inlap, leaves at most one entry per inlap; a second
\* call with the same inlap and compound changes nothing; a later call for
\* the same inlap overwrites the compound of that entry and nothing else
C14_ScheduleIdempotent ==
    LET s == race.cars_list[1].strategy IN
    /\ UniqueInlaps(s)
    /\ \A inlap \in 1..MaxInlap : \A c1, c2 \in ScheduleCompounds :
          LET once == ScheduleWeatherStrategy(s, inlap, c1) IN
          /\ UniqueInlaps(once)
          /\ ScheduleWeatherStrategy(once, inlap, c1) = once
          /\ OnlyCompoundOverwritten(once, ScheduleWeatherStrategy(once, inlap, c2),
                                     inlap, c2)

\* C14 witness: calls have overwritten the compound of the planned stop,
\* which keeps its start age, and have added entries for the other inlaps
C14_OverwrittenAndAdded ==
    LET s == race.cars_list[1].strategy IN
    /\ Len(s) = MaxInlap + 1
    /\ s[2] = [inlap |-> 1, tire_start_age |-> 2, compound |-> "INTERMEDIATE"]
    /\ s[3].tire_start_age = 0

\* C15: a car standing at its box after a stop that changed the tire set
\* has a set whose total age and current-stint age both equal the start
\* age of the strategy entry of the stop
C15_NewSetAgesAtStartAge ==
    \A i \in CarIdxs(race) :
        LET car == race.cars_list[i] IN
        car.sh.pit_standstill_act /\ HasTireChange(car, PitstopInlap(race, car))
            => LET entry == car.strategy[GetStrategyEntry(car.strategy,
                                                          PitstopInlap(race, car))]
               IN  /\ car.tireset.age_tot = entry.tire_start_age * 1000
                   /\ car.tireset.age_cur_stint = entry.tire_start_age * 1000

\* car i stops at its box in this step
StopsInStep(i) ==
    /\ ~race.cars_list[i].sh.pit_standstill_act
    /\ race'.cars_list[i].sh.pit_standstill_act

\* C16: the current-stint age of every tire set is at most its total age,
\* and in a step in which the car does not stop at its box the stint age
\* does not decrease
C16_StintAgeBounded ==
    [][ \A i \in CarIdxs(race) :
            /\ race.cars_list[i].tireset.age_cur_stint
                   <= race.cars_list[i].tireset.age_tot
            /\ race'.cars_list[i].tireset.age_cur_stint
                   <= race'.cars_list[i].tireset.age_tot
            /\ ~StopsInStep(i)
                   => race'.cars_list[i].tireset.age_cur_stint
                          >= race.cars_list[i].tireset.age_cur_stint ]_vars

\* C16 witness: a car that started on a used set has driven a lap in dirty
\* air, which aged its set by more than a lap
C16_AgedInDirtyAir ==
    \E i \in CarIdxs(race) :
        /\ race.cars_list[i].tireset.age_cur_stint > 1000
        /\ race.cars_list[i].tireset.age_cur_stint % 1000 # 0
        /\ race.cars_list[i].tireset.age_cur_stint
               < race.cars_list[i].tireset.age_tot

\* two cars of the race have the same grid position
SharedGridPosition ==
    \E i, j \in CarIdxs(race) :
        i # j /\ race.cars_list[i].p_grid = race.cars_list[j].p_grid

\* C17: no race is run for a scenario in which two cars have the same grid
\* position: no step is simulated and handle_race does not return a result
C17_SharedGridPositionRejected ==
    SharedGridPosition => race.cur_racetime = 0 /\ pc # "ok"

\* the cars whose retirement calls the safety car in this step: their
\* trigger-consumed mark is set by the trigger (race.rs:419-421)
NewlyMarked == {i \in CarIdxs(race) : ~race.sc_triggers[i] /\ race'.sc_triggers[i]}

\* C18: the safety car is called only for a car that retired outside the
\* pit lane while no safety-car period was on: in a step in which the
\* trigger fires the flag was not SC at the start of the step, so that no
\* car that retired during the period calls the next one, and a car whose
\* retirement is reacted to stands outside the pit lane
C18_ScOnlyForDnfOnTrackUnderGreen ==
    [][ NewlyMarked # {}
          => /\ race.flag_state # "Sc"
             /\ \E i \in NewlyMarked : ~race.cars_list[i].sh.pit_act ]_vars

\* the safety-car trigger has fired in this step: the timer of the period
\* is at its start value (race.rs:415-417)
TriggerFired == StepDone /\ race'.sc_timer = SC_TIMER_MAX

\* C19: a step in which the safety car is triggered sets the mark of every
\* car that was DNF, and is caused by a car whose mark was not set; a mark
\* once set stays; the number of SC_DEPLOYED events never exceeds the number
\* of DNF cars
C19_TriggerConsumedOnce ==
    /\ [](Cardinality(EventIdxs("SC_DEPLOYED"))
             <= Cardinality({i \in CarIdxs(race) : IsDNF(race, i)}))
    /\ [][ /\ TriggerFired
                => /\ NewlyMarked # {}
                   /\ \A i \in CarIdxs(race) : IsDNF(race, i) => race'.sc_triggers[i]
            /\ \A i \in CarIdxs(race) : race.sc_triggers[i] => race'.sc_triggers[i]
          ]_vars

\* C19 witness: two cars have retired one after the other, both are marked
\* and the safety car has been deployed twice
C19_TwoDeploymentsTwoDnf ==
    /\ Cardinality(EventIdxs("SC_DEPLOYED")) = 2
    /\ \A i \in CarIdxs(race) : IsDNF(race, i) /\ race.sc_triggers[i]

\* no pairwise interaction has acted in this step: no Crash event is logged
\* and no car has its tire wear factor changed other than by the reset at
\* the end of a lap (car.rs:171)
NoInteractionInStep ==
    /\ \A k \in 1..Len(race'.events) :
          k > Len(race.events) => race'.events[k].kind # "Crash"
    /\ \A i \in CarIdxs(race) :
          race'.cars_list[i].dirty_air_wear_factor
              \in {race.cars_list[i].dirty_air_wear_factor, 1000}

LineupsOfPeriod(d, t_end) ==
    {m \in 1..Len(lineups) :
        race.events[d].time_s <= lineups[m] /\ lineups[m] <= t_end}

\* the safety car is on track in the period that started with event d
ScPeriodOpen(d) ==
    /\ race.safety_car.active
    /\ d > 0
    /\ \A k \in (d + 1)..Len(race.events) : race.events[k].kind # "SC_IN"

\* C21 (as the code has it): once a step has found every active car lined
\* up behind the safety car, the countdown is at most 10 s minus the race
\* time passed since that step for as long as the safety car stays on
\* track, and SC_IN is logged less than 10 s plus one time step after that
\* step; the countdown never increases from one step to the next while the
\* safety car stays on track.
C21_ScInAfterLineup ==
    /\ [](\A k \in EventIdxs("SC_IN") :
              \A m \in LineupsOfPeriod(LastDeployBefore(k), race.events[k].time_s) :
                  race.events[k].time_s - lineups[m]
                      < SC_RELEASE_AFTER_LINEUP + race.timestep_size)
    /\ [](ScPeriodOpen(LastDeployBefore(Len(race.events) + 1)) =>
              \A m \in LineupsOfPeriod(LastDeployBefore(Len(race.events) + 1),
                                       race.cur_racetime) :
                  race.sc_timer
                      <= SC_RELEASE_AFTER_LINEUP - (race.cur_racetime - lineups[m]))
    /\ [][(StepDone /\ race.safety_car.active /\ race'.safety_car.active)
              => race'.sc_timer <= race.sc_timer]_vars

\* a lineup has cut the countdown short: the safety car came in after a
\* lineup, less than 300 s after it was deployed
C21_LineupCutCountdown ==
    \E k \in EventIdxs("SC_IN") :
        /\ LineupsOfPeriod(LastDeployBefore(k), race.events[k].time_s) # {}
        /\ race.events[k].time_s - race.events[LastDeployBefore(k)].time_s
               < SC_TIMER_MAX - SC_RELEASE_AFTER_LINEUP

\* C21 as stated: SC_IN is logged within 10 s of race time of the step
\* that found the queue lined up.
C21_ScInWithin10sOfLineup ==
    \A k \in EventIdxs("SC_IN") :
        \A m \in LineupsOfPeriod(LastDeployBefore(k), race.events[k].time_s) :
            race.events[k].time_s - lineups[m] <= SC_RELEASE_AFTER_LINEUP

\* the weather-change events of the log
WeatherEventIdxs == EventIdxs("WeatherRainStart") \cup EventIdxs("WeatherDryStart")

\* C22: every weather-change event is logged no earlier than race time
\* min_weather_duration_s, any two weather-change events are at least
\* min_weather_duration_s of race time apart, and weather_state changes
\* only in a step that logs such an event.
C22_WeatherMinDuration ==
    /\ [](\A k \in WeatherEventIdxs :
              /\ race.events[k].time_s >= race.min_weather_duration_s
              /\ \A j \in WeatherEventIdxs :
                     j < k => race.events[k].time_s - race.events[j].time_s
                                  >= race.min_weather_duration_s)
    /\ [][race'.weather_state # race.weather_state =>
              \E k \in (Len(race.events) + 1)..Len(race'.events) :
                  /\ race'.events[k].kind \in {"WeatherRainStart", "WeatherDryStart"}
                  /\ race'.events[k].time_s = race.cur_racetime]_vars

\* the weather has changed and changed back
C22_WeatherChangedTwice ==
    \E j, k \in WeatherEventIdxs :
        /\ j < k
        /\ race.events[j].kind # race.events[k].kind
        /\ race.weather_state = (IF race.events[k].kind = "WeatherRainStart"
                                 THEN "Rain" ELSE "Dry")

\* C23: every weather-scheduled stop is executed: a car that completes lap
\* inlap as a running car while its strategy has an entry for that inlap
\* crosses the line in the pit lane, wherever it was on the lap when the
\* weather change scheduled the entry.
C23_ScheduledStopExecuted ==
    [][StepDone =>
          \A i \in CarIdxs(race) :
              (/\ ~IsDNF(race', i)
               /\ race'.cars_list[i].sh.compl_lap_cur > race.cars_list[i].sh.compl_lap_cur
               /\ GetStrategyEntry(race'.cars_list[i].strategy,
                                   race'.cars_list[i].sh.compl_lap_cur) # 0)
                  => race'.cars_list[i].sh.pit_act
      ]_vars

\* the state of car i after handle_state_transitions of the step, before
\* handle_pit_standstill: a car that was on track and ends the step in the
\* pit lane or in its box has entered the pit lane
StateAfterTransitions(i) ==
    LET sh == race.cars_list[i].sh IN
    IF sh.state = "OnTrack"
    THEN IF race'.cars_list[i].sh.pit_act THEN "Pitlane" ELSE "OnTrack"
    ELSE IF sh.state = "Pitlane" /\ ~race'.cars_list[i].sh.pit_act THEN "OnTrack"
    ELSE sh.state

\* C24: in every step the state machine of a car takes at most one of the
\* transitions OnTrack->Pitlane and Pitlane->OnTrack, followed by at most
\* one of Pitlane->PitStandstill and PitStandstill->Pitlane; it enters the
\* pit lane only if the strategy has an entry with inlap = completed laps
\* + 1 and the pit entry was crossed by the last movement of the car, and
\* leaves it only if the pit exit was crossed by the last movement.
C24_StateMachineTransitions ==
    [][StepDone =>
          \A i \in CarIdxs(race) :
              LET sh == race.cars_list[i].sh
                  mid == StateAfterTransitions(i)
                  end == race'.cars_list[i].sh.state
              IN  /\ <<sh.state, mid>> \in
                         {<<"OnTrack", "OnTrack">>, <<"OnTrack", "Pitlane">>,
                          <<"Pitlane", "Pitlane">>, <<"Pitlane", "OnTrack">>,
                          <<"PitStandstill", "PitStandstill">>}
                  /\ <<mid, end>> \in
                         {<<"OnTrack", "OnTrack">>, <<"Pitlane", "Pitlane">>,
                          <<"Pitlane", "PitStandstill">>,
                          <<"PitStandstill", "PitStandstill">>,
                          <<"PitStandstill", "Pitlane">>}
                  /\ (sh.state = "OnTrack" /\ mid = "Pitlane") =>
                         /\ PitThisLap(race'.cars_list[i], sh.compl_lap_cur + 1)
                         /\ GetSTrackPassedThisStep(sh, PitZone[1])
                  /\ (sh.state = "Pitlane" /\ mid = "OnTrack") =>
                         GetSTrackPassedThisStep(sh, PitZone[2])
                  /\ race'.cars_list[i].sh.pit_act = (end # "OnTrack")
                  /\ race'.cars_list[i].sh.pit_standstill_act = (end = "PitStandstill")
      ]_vars

\* a car is back on track after a stop on its inlap
C24_BackOnTrackAfterStop ==
    \E i \in CarIdxs(race) :
        LET car == race.cars_list[i] IN
        /\ ~IsDNF(race, i)
        /\ car.sh.state = "OnTrack"
        /\ car.sh.s_track_cur >= PitZone[2]
        /\ car.sh.compl_lap_cur >= 1
        /\ GetStrategyEntry(car.strategy, car.sh.compl_lap_cur) > 1
        /\ car.tireset.age_cur_stint = 0
        /\ car.tireset.compound
               = car.strategy[GetStrategyEntry(car.strategy, car.sh.compl_lap_cur)].compound

\* car i stops at its box in this step
StopsAtBox(i) ==
    /\ StateAfterTransitions(i) = "Pitlane"
    /\ race'.cars_list[i].sh.state = "PitStandstill"

\* C25: the compound of a car changes only in the step in which its state
\* goes Pitlane->PitStandstill; in that step a car whose strategy has a
\* tire change for the inlap gets the compound of that entry, and any other
\* car keeps its compound; the fuel mass changes only when a running car
\* completes a lap, and then decreases, so no pit stop changes it.
C25_CompoundChangesAtStopOnly ==
    [][\A i \in CarIdxs(race) :
          LET car == race.cars_list[i]
              car1 == race'.cars_list[i]
              inlap == PitstopInlap(race', car1)
          IN  /\ (StepDone /\ StopsAtBox(i) /\ HasTireChange(car1, inlap)) =>
                     car1.tireset.compound
                         = car1.strategy[GetStrategyEntry(car1.strategy, inlap)].compound
              /\ ~(StepDone /\ StopsAtBox(i) /\ HasTireChange(car1, inlap)) =>
                     car1.tireset.compound = car.tireset.compound
              /\ car1.m_fuel # car.m_fuel =>
                     /\ car1.sh.compl_lap_cur > car.sh.compl_lap_cur
                     /\ car1.m_fuel < car.m_fuel
      ]_vars

\* a car has left its box on the new compound, with less fuel than at the
\* start
C25_StoppedAndChanged ==
    \E i \in CarIdxs(race) :
        LET car == race.cars_list[i] IN
        /\ car.sh.state = "Pitlane"
        /\ car.sh.s_track_cur = car.pit_location
        /\ GetStrategyEntry(car.strategy, PitstopInlap(race, car)) > 1
        /\ car.tireset.compound
               = car.strategy[GetStrategyEntry(car.strategy, PitstopInlap(race, car))].compound
        /\ car.tireset.compound # car.strategy[1].compound
        /\ car.m_fuel < MFuel

\* the lap on which a car in the pit lane, or about to enter it, enters
\* the pit lane: the lap it is driving before the line, the lap it has
\* just completed after the line
LapOfPitEntry(car) ==
    IF car.sh.state = "OnTrack" \/ car.sh.s_track_cur >= PitZone[1]
    THEN car.sh.compl_lap_cur + 1
    ELSE car.sh.compl_lap_cur

\* C26: for either value of pits_aft_finishline, in every step the race
\* progress of a car moves forward by at most the distance driven in the
\* step, the completed-lap counter goes up only when that distance takes
\* the car over the line, and a stop at the box uses the strategy entry of
\* the lap on which the car entered the pit lane.
C26_LapAccountingConsistent ==
    [][StepDone =>
          \A i \in CarIdxs(race) :
              LET car == race.cars_list[i]
                  car1 == race'.cars_list[i]
                  driven == Dist(race.timestep_size, race'.cur_laptimes[i])
              IN  /\ GetRaceProg(car1.sh) >= GetRaceProg(car.sh)
                  /\ GetRaceProg(car1.sh) <= GetRaceProg(car.sh) + driven
                  /\ car1.sh.compl_lap_cur > car.sh.compl_lap_cur =>
                         /\ car1.sh.compl_lap_cur = car.sh.compl_lap_cur + 1
                         /\ car.sh.s_track_cur + driven >= TrackLength
                  /\ StopsAtBox(i) =>
                         PitstopInlap(race', car1) = LapOfPitEntry(car)
      ]_vars

\* C27: the race time of lap k of a car is written only in the step in
\* which the car completes lap k, once, with a value between the race time
\* at the start and at the end of that step; every step in which a car
\* completes a lap k <= tot_no_laps writes it; the recorded race times of
\* a car are strictly increasing in k.
C27_LapRecordedInCrossingStep ==
    /\ [][\A i \in CarIdxs(race) : \A k \in 1..race.tot_no_laps :
              LET sh == race.cars_list[i].sh
                  sh1 == race'.cars_list[i].sh
                  crossed == StepDone /\ sh.compl_lap_cur = k - 1
                                 /\ sh1.compl_lap_cur = k
              IN  /\ race'.racetimes[i][k] # race.racetimes[i][k] => crossed
                  /\ race'.laptimes[i][k] # race.laptimes[i][k] => crossed
                  /\ crossed =>
                         /\ race.racetimes[i][k] = 0
                         /\ race'.racetimes[i][k]
                                >= race'.cur_racetime - race.timestep_size
                         /\ race'.racetimes[i][k] <= race'.cur_racetime
       ]_vars
    /\ [](\A i \in CarIdxs(race) :
              \A k \in 1..race.tot_no_laps :
                  k <= race.cars_list[i].sh.compl_lap_cur =>
                      race.racetimes[i][k] > race.racetimes[i][k - 1])

\* a car has completed two laps, neither at the end of a step
C27_TwoLapsWithinSteps ==
    \E i \in CarIdxs(race) :
        /\ race.cars_list[i].sh.compl_lap_cur >= 2
        /\ race.racetimes[i][1] % race.timestep_size # 0
        /\ race.racetimes[i][2] % race.timestep_size # 0
        /\ race.racetimes[i][2] > race.racetimes[i][1]

\* C28: the cur_laptime with which a step integrates the position of a car
\* is infinite only if the car is DNF, or stands at its box and does not
\* leave the standstill in this step; a running car on track or driving in
\* the pit lane has a finite cur_laptime, also behind a DNF car.
C28_InfiniteLaptimeOnlyDnfOrStandstill ==
    [][StepDone =>
          \A i \in CarIdxs(race) :
              race'.cur_laptimes[i] >= Inf =>
                  \/ IsDNF(race', i)
                  \/ /\ race.cars_list[i].sh.pit_standstill_act
                     /\ CheckLeavesStandstill(race.cars_list[i].sh,
                                              race.timestep_size) < 0
      ]_vars

\* C29: in every simulated step, a running car that drives in the pit lane
\* (pit_act, not in standstill) when the lap times are computed is moved
\* with cur_laptime = (L / v_pit) * (real_pit_length / virtual_pit_length),
\* under every flag and whatever cars are near it
C29_PitlanePaceUnaltered ==
    [][StepDone =>
          \A i \in CarIdxs(race) :
              (/\ ~IsDNF(race, i)
               /\ race.cars_list[i].sh.pit_act
               /\ ~race.cars_list[i].sh.pit_standstill_act)
                  => race'.cur_laptimes[i] = PitLaptime
      ]_vars

\* car j, on track behind car i by less than a quarter of the lap, is on
\* track in front of it by less than a quarter of the lap after the step;
\* both are running and neither is in the pit lane before or after
PassesInStep(j, i) ==
    LET OnTrackBoth(r) == /\ ~IsDNF(r, i) /\ ~IsDNF(r, j)
                          /\ ~r.cars_list[i].sh.pit_act
                          /\ ~r.cars_list[j].sh.pit_act
        Ahead(r, a, b) == (GetSTracksCur(r.cars_list[a].sh)
                             - GetSTracksCur(r.cars_list[b].sh)) % TrackLength
    IN  /\ OnTrackBoth(race) /\ OnTrackBoth(race')
        /\ Ahead(race, i, j) > 0 /\ 4 * Ahead(race, i, j) < TrackLength
        /\ Ahead(race', j, i) > 0 /\ 4 * Ahead(race', j, i) < TrackLength

\* C30: two running cars on track exchange their order in a step only if
\* the car that gains the place is inside an overtaking zone at the start
\* or at the end of the step
C30_SwapsOnlyInOvertakingZones ==
    [][StepDone =>
          \A i, j \in CarIdxs(race) :
              PassesInStep(j, i) =>
                  \/ IsInOvertakingZone(race.overtaking_zones,
                                        GetSTracksCur(race.cars_list[j].sh))
                  \/ IsInOvertakingZone(race.overtaking_zones,
                                        GetSTracksCur(race'.cars_list[j].sh))
      ]_vars

\* the Crash and EngineFailure events of a race, as indices of its log
DnfEventIdxs(r) ==
    { k \in 1..Len(r.events) : r.events[k].kind \in {"Crash", "EngineFailure"} }

\* the events of kind Crash or EngineFailure that name car i
DnfEventsOf(r, i) ==
    { k \in DnfEventIdxs(r) :
        \E c \in 1..Len(r.events[k].cars) :
            r.events[k].cars[c] = r.cars_list[i].car_no }

\* C31: every Running->DNF transition is logged in the same step by exactly
\* one event: a Crash naming exactly the two distinct cars that collided
\* (both running and not in the pit before, both DNF after) or an
\* EngineFailure naming the one car, at that car's lap rollover; no car is
\* named by more than one Crash/EngineFailure event.
C31_DnfLoggedOnce ==
    /\ [][StepDone =>
            LET new == { k \in DnfEventIdxs(race') : k > Len(race.events) }
                Retires(i) == ~IsDNF(race, i) /\ IsDNF(race', i)
            IN  /\ \A i \in CarIdxs(race) :
                       Retires(i) =>
                           Cardinality(DnfEventsOf(race', i) \cap new) = 1
                /\ \A k \in new :
                       LET e == race'.events[k]
                           named == { i \in CarIdxs(race) : k \in DnfEventsOf(race', i) }
                       IN  /\ \A i \in named : Retires(i)
                           /\ e.kind = "Crash" =>
                                  /\ Len(e.cars) = 2
                                  /\ Cardinality(named) = 2
                                  /\ \A i \in named : ~race.cars_list[i].sh.pit_act
                           /\ e.kind = "EngineFailure" =>
                                  /\ Len(e.cars) = 1
                                  /\ Cardinality(named) = 1
                                  /\ \A i \in named :
                                         race'.cars_list[i].sh.compl_lap_cur
                                             > race.cars_list[i].sh.compl_lap_cur
       ]_vars
    /\ [](\A i \in CarIdxs(race) : Cardinality(DnfEventsOf(race, i)) <= 1)

\* a collision has been logged and both cars are out
C31_CrashLogged ==
    \E k \in DnfEventIdxs(race) :
        /\ race.events[k].kind = "Crash"
        /\ \A i \in CarIdxs(race) : IsDNF(race, i) /\ k \in DnfEventsOf(race, i)

\* C32: the dirty-air wear factor is consumed once per lap: in a step in
\* which a running car completes a lap, both tire ages advance by the same
\* amount of at least one lap (unless the car takes new tires at its box in
\* that step) and the factor is exactly 1.0 at the end of the step; in every
\* state the factor is at least 1.0.
C32_WearFactorConsumedPerLap ==
    /\ [](\A i \in CarIdxs(race) : race.cars_list[i].dirty_air_wear_factor >= 1000)
    /\ [][StepDone =>
            \A i \in CarIdxs(race) :
                (~IsDNF(race, i) /\ GetNewLap(race'.cars_list[i].sh)) =>
                    LET old == race.cars_list[i].tireset
                        new == race'.cars_list[i].tireset
                    IN  /\ race'.cars_list[i].dirty_air_wear_factor = 1000
                        /\ ~StopsInStep(i) =>
                               /\ new.age_tot - old.age_tot >= 1000
                               /\ new.age_tot - old.age_tot
                                      = new.age_cur_stint - old.age_cur_stint
       ]_vars

\* a car has completed a lap driven in dirty air: its set is older than the
\* laps it has driven, and the factor is back at 1.0
C32_DirtyLapConsumed ==
    \E i \in CarIdxs(race) :
        /\ ~IsDNF(race, i)
        /\ GetNewLap(race.cars_list[i].sh)
        /\ race.cars_list[i].sh.compl_lap_cur = 1
        /\ race.cars_list[i].tireset.age_cur_stint > 1000
        /\ race.cars_list[i].dirty_air_wear_factor = 1000

\* the SC_DEPLOYED and SC_IN events of the log, in order
ScEvents(r) ==
    SelectSeq(r.events, LAMBDA e : e.kind \in {"SC_DEPLOYED", "SC_IN"})

\* C33: SC_DEPLOYED and SC_IN strictly alternate in the event log, starting
\* with SC_DEPLOYED, and the safety car is on track (safety_car.active)
\* exactly when the last of these events is an SC_DEPLOYED.
C33_ScEventsAlternate ==
    LET sc == ScEvents(race) IN
    /\ \A k \in 1..Len(sc) :
           sc[k].kind = IF k % 2 = 1 THEN "SC_DEPLOYED" ELSE "SC_IN"
    /\ race.safety_car.active <=> Len(sc) % 2 = 1

\* the safety car is on track for the second time
C33_SecondDeployment ==
    Len(ScEvents(race)) = 3 /\ race.safety_car.active

\* ---------------------------------------------------------------------------
\* C34: the fatal checks of the state handler are never hit by the race
\* loop: no car is ever marked by a panic of act_pit_standstill (outside
\* Pitlane), of deact_pit_standstill, increment_t_standstill or
\* check_leaves_standstill (outside PitStandstill) or of set_s_track (value
\* outside [0, L)), and handle_race never ends by a panic.
C34_NoFatalCheckHit ==
    /\ pc # "panic"
    /\ \A i \in CarIdxs(race) :
          /\ ~race.cars_list[i].sh.panicked
          /\ race.cars_list[i].pit_location >= 0
          /\ race.cars_list[i].pit_location < TrackLength

\* a car stands at its box with standstill time accumulated: the step before
\* called act_pit_standstill and set_s_track, this one
\* check_leaves_standstill and increment_t_standstill
C34_StandstillCallsMade ==
    \E i \in CarIdxs(race) :
        /\ race.cars_list[i].sh.state = "PitStandstill"
        /\ race.cars_list[i].sh.t_standstill >= race.timestep_size
        /\ race.cars_list[i].sh.s_track_cur = race.cars_list[i].pit_location
        /\ ~race.cars_list[i].sh.panicked

\* ---------------------------------------------------------------------------
\* C35: in every reachable state the activity booleans of every car agree
\* with its state: pit_act holds exactly in Pitlane and PitStandstill, and
\* pit_standstill_act holds exactly in PitStandstill.
C35_BooleansAgreeWithState ==
    \A i \in CarIdxs(race) :
        LET sh == race.cars_list[i].sh IN
        /\ sh.pit_act <=> sh.state \in {"Pitlane", "PitStandstill"}
        /\ sh.pit_standstill_act <=> sh.state = "PitStandstill"

\* a car is back in Pitlane after its standstill (on the set of its second
\* stint) while another car is on the track
C35_PitlaneAfterStandstill ==
    \E i, j \in CarIdxs(race) :
        /\ race.cars_list[i].sh.state = "Pitlane"
        /\ race.cars_list[i].sh.pit_act
        /\ ~race.cars_list[i].sh.pit_standstill_act
        /\ race.cars_list[i].sh.s_track_cur > race.cars_list[i].pit_location
        /\ race.cars_list[j].sh.state = "OnTrack"
        /\ ~race.cars_list[j].sh.pit_act

\* ---------------------------------------------------------------------------
\* C36: every pit-lane visit contains exactly one standstill and exactly one
\* pit-stop application: a car never has more than one call of
\* act_pit_standstill or of perform_pitstop in a visit, and a car that goes
\* from the pit lane back to OnTrack has had exactly one of each. (That a
\* Running car that enters the pit lane returns to OnTrack is
\* C36ReturnsToTrack.)
C36_OneStandstillPerVisit ==
    [][\A i \in CarIdxs(race) :
          /\ race'.cars_list[i].sh.visit_standstills <= 1
          /\ race'.cars_list[i].sh.visit_pitstops <= 1
          /\ (race.cars_list[i].sh.state # "OnTrack"
              /\ race'.cars_list[i].sh.state = "OnTrack")
             => /\ race.cars_list[i].sh.visit_standstills = 1
                /\ race.cars_list[i].sh.visit_pitstops = 1]_vars

\* the return to the track, for a run that ends: when handle_race has
\* returned no Running car is left in the pit lane
C36ReturnsToTrack ==
    pc = "ok" =>
        \A i \in CarIdxs(race) :
            race.cars_list[i].status = "Running"
                => race.cars_list[i].sh.state = "OnTrack"

\* ---------------------------------------------------------------------------
\* C37: at the end of every step a car in PitStandstill is exactly at its
\* pit box, and while it remains in PitStandstill from one step to the next
\* neither its position nor its lap count changes.
C37_StandstillAtBox ==
    /\ [](\A i \in CarIdxs(race) :
             race.cars_list[i].sh.state = "PitStandstill"
                 => race.cars_list[i].sh.s_track_cur = race.cars_list[i].pit_location)
    /\ [][\A i \in CarIdxs(race) :
             (/\ race.cars_list[i].sh.state = "PitStandstill"
              /\ race'.cars_list[i].sh.state = "PitStandstill")
                 => /\ race'.cars_list[i].sh.s_track_cur
                           = race.cars_list[i].sh.s_track_cur
                    /\ race'.cars_list[i].sh.compl_lap_cur
                           = race.cars_list[i].sh.compl_lap_cur]_vars

\* a car has stood at its box for more than two steps
C37_StoodForSteps ==
    \E i \in CarIdxs(race) :
        /\ race.cars_list[i].sh.state = "PitStandstill"
        /\ race.cars_list[i].sh.t_standstill > 2 * race.timestep_size
        /\ race.cars_list[i].sh.s_track_prev = race.cars_list[i].pit_location

\* ---------------------------------------------------------------------------
\* C38: in a race with exactly one car there is no other car to be within
\* 1 s of: the duel_act of the car is false in every state, hence no duel
\* additive enters its lap time.
C38_SingleCarNeverDuels ==
    Len(race.cars_list) = 1 => ~race.cars_list[1].sh.duel_act

\* ---------------------------------------------------------------------------
\* C39: the race flag only takes the values G, SC and C, never Y or VSC, and
\* it only changes from G to SC (with a retired car that called the safety
\* car), from SC to G (with an SC_IN event logged in the step) and from G or
\* SC to C (the leader has completed the race distance).
C39_FlagValuesAndChanges ==
    /\ [](race.flag_state \in {"G", "Sc", "C"})
    /\ [][race'.flag_state # race.flag_state =>
            \/ /\ race.flag_state = "G"
               /\ race'.flag_state = "Sc"
               /\ \E i \in CarIdxs(race') :
                      IsDNF(race', i) /\ race'.sc_triggers[i] /\ ~race.sc_triggers[i]
            \/ /\ race.flag_state = "Sc"
               /\ race'.flag_state = "G"
               /\ Len(ScEvents(race')) = Len(ScEvents(race)) + 1
               /\ ScEvents(race')[Len(ScEvents(race'))].kind = "SC_IN"
            \/ /\ race.flag_state \in {"G", "Sc"}
               /\ race'.flag_state = "C"
               /\ race'.cur_lap_leader > race'.tot_no_laps]_vars

\* the flag has been SC, green again and is now chequered
C39_AllThreeFlagsSeen ==
    /\ race.flag_state = "C"
    /\ Len(ScEvents(race)) = 2
    /\ ~race.safety_car.active

=============================================================================
